---- MODULE Spec2Model ----
(***************************************************************************)
(* Milestone accounting and reward-request workflow of the Goated wager    *)
(* tracker bot (src/database/connection.py, src/utils/milestone_tracker.py)*)
(* as a state machine over the SQLite tables the operations read and write.*)
(* Every database operation runs inside `async with db_manager._lock` and  *)
(* contains no await, so each operation is one atomic action.              *)
(***************************************************************************)
EXTENDS Integers, Sequences, FiniteSets, Bags, TLC

(***************************************************************************)
(* Bounds of the model.                                                    *)
(***************************************************************************)
\* The highest observed monthly wager reaches this many 50k ladder steps above 100k.
MaxLadderSteps == 2
\* Cap on the AUTOINCREMENT id of milestone_requests (number of requests ever created).
MaxRequests == 2
\* The wall clock advances at most this many seconds.
MaxNow == 1
\* wall-clock steps of half a cache lifetime
MaxWaits == 3
\* days the wall clock passes beyond the first
MaxDay == 7
\* rows of daily_wager_history
MaxLedgerRows == 2
\* rows of bot_stats
MaxStats == 2
\* requests one client sends to one endpoint
MaxSends == 5
\* MAX_REQUESTS_PER_MINUTE of the settings the client runs under (the environment
\* variable MAX_REQUESTS_PER_MINUTE; 30 when unset)
MAX_REQUESTS_PER_MINUTE == 2

(***************************************************************************)
(* Program constants.                                                      *)
(***************************************************************************)
\* `if current_monthly_wager >= 100000`
LadderBase == 100000
\* `milestone_amount = 100000 + (i * 50000)`
LadderStep == 50000
\* bonus of a ladder milestone, `50.0`
LadderBonus == 50
\* cache_wager_data(..., cache_duration_minutes: int = 5)
CacheDurationMinutes == 5
\* expires_at = now + cache_duration_minutes * 60
SecondsPerMinute == 60
\* minute_ago = now - timedelta(minutes=1), in seconds
RateWindow == 60
\* sleep_time = 60 - (now - self.request_count[endpoint][0]).seconds
SleepBase == 60
\* seven_days_ago = now - timedelta(days=7)
RollingDays == 7
\* cleanup_old_daily_wager_data(days_to_keep: int = 30)
DefaultDaysToKeep == 30

(***************************************************************************)
(* Input domains.                                                          *)
(***************************************************************************)
Usernames == {"ann", "bob"}
TelegramIds == {101, 102}
AdminIds == {900}
\* each chat identity registers its own affiliate account
OwnAccounts == {<<101, "ann">>, <<102, "bob">>}
\* the names the affiliate API lists its players under
PlayerNames == Usernames
\* names as chats type them: also in another casing, also of no player
TypedNames == Usernames \cup {"Ann", "zed"}
\* the rank the affiliate API's listing gives the player
Ranks == {1}
\* one chat and its account
OneAccount == {<<101, "ann">>}
\* an account that either chat may claim
SharedAccounts == OwnAccounts \cup {<<102, "ann">>}
\* chats registering under a name in either casing, or under a name of no player
CaseAccounts == {<<101, "ann">>, <<102, "Ann">>, <<102, "ann">>, <<102, "zed">>}
\* strftime('%Y-%m') of the wall clock, one string per calendar month
MonthNames == <<"2024-01", "2024-02">>
TopWager == LadderBase + LadderStep * MaxLadderSteps
\* monthly wagers the external source reports
Wagers == {9999, LadderBase, TopWager, TopWager + 30000}
FewWagers == {9999, TopWager + 30000}
OneWager == {TopWager}
\* wagers shown to get_next_milestone
ProgressWagers == Wagers \cup {99999}
\* thresholds a request button can carry
RequestAmounts == {LadderBase}
\* a wager that crosses the lowest default definition only
LowWagers == {10000}
\* statements of an evaluation at which a storage error is injected (0: none). An
\* evaluation executes at most one INSERT per default definition (4) and ladder
\* step, and then conn.commit(); a position past the last statement of a call
\* stands for its conn.commit().
CommitStatement == 4 + MaxLadderSteps + 1
NoStatement == {0}
FirstStatement == {0, 1, CommitStatement}
AnyStatement == 0..CommitStatement
\* half of the lifetime of a cache entry, in seconds
HalfLife == (CacheDurationMinutes * SecondsPerMinute) \div 2
\* what the affiliate API reports for a player: wagered.today, this_week, this_month,
\* all_time; or that no player has the name
NoPlayer == [found |-> FALSE, today |-> 0, this_week |-> 0, this_month |-> 0, all_time |-> 0]
SmallPlayers ==
    {[found |-> TRUE, today |-> 100, this_week |-> 300, this_month |-> m, all_time |-> 900] :
        m \in {500, 700}}
DailyPlayers ==
    {[found |-> TRUE, today |-> d, this_week |-> 300, this_month |-> 500, all_time |-> 900] :
        d \in {100, 250}}
OnePlayer ==
    {[found |-> TRUE, today |-> 100, this_week |-> 300, this_month |-> 500, all_time |-> 900]}
\* a player whose monthly wager is on the first milestone
MilestonePlayer ==
    {[found |-> TRUE, today |-> 100, this_week |-> 300, this_month |-> m, all_time |-> 900] :
        m \in LowWagers}
\* the monthly wager the affiliate API reports for the player in each calendar month:
\* this_month starts again when a month begins
MonthlyFigures == <<25000, 10000>>
\* the calendar date of day number 0; the program starts RollingDays later
EpochDate == <<2024, 1, 19>>
\* days the wall clock may pass at once
DaySteps == {1, RollingDays - 1}
\* days_to_keep of cleanup_old_daily_wager_data: short, the rolling window, the default
RetentionDays == {2, RollingDays, DefaultDaysToKeep}

VARIABLES
    users,                  \* table users: set of rows
    milestone_definitions,  \* table milestone_definitions: set of rows
    milestone_achievements, \* table milestone_achievements: bag of rows
    milestone_requests,     \* table milestone_requests: sequence of rows in rowid order
    request_seq,            \* sqlite_sequence of milestone_requests (last AUTOINCREMENT id)
    clock,                  \* wall clock, as an index into MonthNames
    write_locked,           \* a connection abandoned with an open write transaction
                            \* still holds the database's write lock
    wager_cache,            \* table wager_cache: set of rows
    daily_wager_history,    \* table daily_wager_history: set of rows
    buttons,                \* request buttons on the messages sent to the chats
    now,                    \* wall clock in seconds (timestamp(), CURRENT_TIMESTAMP)
    today,                  \* wall clock in days, as a day number
    leaderboard_cache,      \* table leaderboard_cache: set of rows
    gate,                   \* db_manager._lock: the task holding it, 0 when free
    waiters,                \* ... and the tasks waiting for it, first come first
    tasks,                  \* the running commands: per task its position and locals
    ret,                    \* the last operation and what it returned
    evaluated,              \* per username: highest wager evaluated successfully this month
    bot_stats,              \* table bot_stats: sequence of rows in rowid order
    request_count,          \* GoatedAPI.request_count[endpoint] of one client, for one
                            \* endpoint: the recorded request times, in seconds
    sent                    \* the times at which that client's requests to the endpoint
                            \* left _rate_limit_check, in call order

vars == <<users, milestone_definitions, milestone_achievements, milestone_requests,
          request_seq, clock, write_locked, wager_cache, daily_wager_history,
          buttons, now, today, ret, evaluated,
         leaderboard_cache, gate, waiters, tasks, bot_stats, request_count, sent>>

(***************************************************************************)
(* Helpers.                                                                *)
(***************************************************************************)
Max(S) == CHOOSE x \in S : \A y \in S : y <= x
Min(S) == CHOOSE x \in S : \A y \in S : x <= y

RECURSIVE SortedSeq(_)
\* the elements of a finite set of integers in ascending order
SortedSeq(S) == IF S = {} THEN <<>> ELSE <<Min(S)>> \o SortedSeq(S \ {Min(S)})


\* datetime.now().strftime('%Y-%m')
current_month_year == MonthNames[clock]

(***************************************************************************)
(* Table milestone_definitions as init_database leaves it.                 *)
(***************************************************************************)
DefaultDefinitions ==
    { [milestone_amount |-> 10000,  bonus_amount |-> 10, is_active |-> TRUE],
      [milestone_amount |-> 25000,  bonus_amount |-> 15, is_active |-> TRUE],
      [milestone_amount |-> 50000,  bonus_amount |-> 25, is_active |-> TRUE],
      [milestone_amount |-> 100000, bonus_amount |-> 50, is_active |-> TRUE] }

\* rows an operator may add to the table: below the ladder, on a ladder value, between
\* two ladder values
ExtraDefinitions ==
    { [milestone_amount |-> 75000, bonus_amount |-> 30, is_active |-> TRUE],
      [milestone_amount |-> LadderBase + LadderStep, bonus_amount |-> 60,
       is_active |-> TRUE],
      [milestone_amount |-> LadderBase + LadderStep + 25000, bonus_amount |-> 70,
       is_active |-> TRUE] }

\* the tables init_database may find: INSERT OR IGNORE adds the defaults to the rows
\* already stored
DefinitionSets == {DefaultDefinitions \cup E : E \in SUBSET ExtraDefinitions}

\* thresholds whose is_active flag an operator may have cleared: two below the ladder,
\* one on it
ClearableAmounts == {25000, 75000, LadderBase + LadderStep}

\* the tables with cleared flags
FlaggedDefinitionSets ==
    {{[d EXCEPT !.is_active = d.milestone_amount \notin I] :
         d \in DefaultDefinitions \cup ExtraDefinitions} : I \in SUBSET ClearableAmounts}

\* as ActiveDefinitions, but without WHERE is_active = 1
AnyDefinitions(defs) ==
    LET amounts == SortedSeq({d.milestone_amount : d \in defs})
    IN  [i \in DOMAIN amounts |-> CHOOSE d \in defs : d.milestone_amount = amounts[i]]

\* SELECT * FROM milestone_definitions WHERE is_active = 1 ORDER BY milestone_amount
ActiveDefinitions(defs) ==
    LET act == {d \in defs : d.is_active}
        amounts == SortedSeq({d.milestone_amount : d \in act})
    IN  [i \in DOMAIN amounts |-> CHOOSE d \in act : d.milestone_amount = amounts[i]]

(***************************************************************************)
(* Table milestone_achievements.                                           *)
(***************************************************************************)
AchievementRow(u, amount, bonus, month, wager) ==
    [username |-> u, milestone_amount |-> amount, bonus_amount |-> bonus,
     month_year |-> month, monthly_wager_at_achievement |-> wager, notified |-> FALSE]

\* rows of a bag, with their multiplicity, that satisfy Test
RowsWhere(rows, Test(_)) ==
    LET keep == {r \in DOMAIN rows : Test(r)} IN [r \in keep |-> rows[r]]

\* number of rows with the key (username, milestone_amount, month_year)
KeyCount(rows, u, amount, month) ==
    LET S == {r \in DOMAIN rows : /\ r.username = u
                                  /\ r.milestone_amount = amount
                                  /\ r.month_year = month}
    IN  BagCardinality([r \in S |-> rows[r]])

\* UNIQUE(username, milestone_amount, month_year): may row r be inserted into rows?
UniqueAchievementOk(rows, r) ==
    KeyCount(rows, r.username, r.milestone_amount, r.month_year) = 0

\* as AchievedMilestones, but without the month_year condition
AchievedAnyMonth(rows, u, month) ==
    {r.milestone_amount : r \in {x \in DOMAIN rows : x.username = u}}

\* SELECT milestone_amount FROM milestone_achievements WHERE username = ? AND month_year = ?
AchievedMilestones(rows, u, month) ==
    {r.milestone_amount : r \in {x \in DOMAIN rows : x.username = u /\ x.month_year = month}}

(***************************************************************************)
(* check_milestone_achievements                                            *)
(***************************************************************************)
\* as StaticInserts, but a definition counts only when the wager exceeds it
StaticInsertsStrict(defs, u, month, wager, achieved) ==
    LET ms == ActiveDefinitions(defs)
        hit(i) == wager > ms[i].milestone_amount /\ ms[i].milestone_amount \notin achieved
        rowOf(i) == AchievementRow(u, ms[i].milestone_amount, ms[i].bonus_amount, month, wager)
        all == [i \in DOMAIN ms |-> <<hit(i), rowOf(i)>>]
        kept == SelectSeq(all, LAMBDA p : p[1])
    IN  [i \in DOMAIN kept |-> kept[i][2]]

\* the first loop: one INSERT per active definition reached and not yet achieved
StaticInserts(defs, u, month, wager, achieved) ==
    LET ms == ActiveDefinitions(defs)
        hit(i) == wager >= ms[i].milestone_amount /\ ms[i].milestone_amount \notin achieved
        rowOf(i) == AchievementRow(u, ms[i].milestone_amount, ms[i].bonus_amount, month, wager)
        all == [i \in DOMAIN ms |-> <<hit(i), rowOf(i)>>]
        kept == SelectSeq(all, LAMBDA p : p[1])
    IN  [i \in DOMAIN kept |-> kept[i][2]]

\* as MilestonesAfter100k, but counting the step the wager is still inside
MilestonesAfter100kCeil(wager) == (wager - LadderBase) \div LadderStep + 1

\* int((current_monthly_wager - 100000) // 50000)
MilestonesAfter100k(wager) == (wager - LadderBase) \div LadderStep

\* as LadderInserts, but with range(2, milestones_after_100k + 1)
LadderInsertsShort(u, month, wager, achieved) ==
    IF wager >= LadderBase
    THEN LET n == (wager - LadderBase) \div LadderStep
             all == [i \in 1..n |-> LadderBase + i * LadderStep]
             kept == SelectSeq(all, LAMBDA a : a \notin achieved /\ a # all[1])
         IN  [i \in DOMAIN kept |-> AchievementRow(u, kept[i], LadderBonus, month, wager)]
    ELSE <<>>

\* the second loop: one INSERT per 50k step above 100k not yet achieved
LadderInserts(u, month, wager, achieved) ==
    IF wager >= LadderBase
    THEN LET n == MilestonesAfter100k(wager)
             all == [i \in 1..n |-> LadderBase + i * LadderStep]
             kept == SelectSeq(all, LAMBDA a : a \notin achieved)
         IN  [i \in DOMAIN kept |-> AchievementRow(u, kept[i], LadderBonus, month, wager)]
    ELSE <<>>

RECURSIVE ExecInserts(_, _, _)
\* the connection's uncommitted table after the first k INSERTs of stmts, or the
\* index of the INSERT that raised sqlite3.IntegrityError
ExecInserts(rows, stmts, k) ==
    IF k = 0 THEN [rows |-> rows, failed_at |-> 0]
    ELSE LET before == ExecInserts(rows, stmts, k - 1)
         IN  IF before.failed_at # 0 THEN before
             ELSE IF UniqueAchievementOk(before.rows, stmts[k])
                  THEN [rows |-> before.rows (+) SetToBag({stmts[k]}), failed_at |-> 0]
                  ELSE [rows |-> before.rows, failed_at |-> k]

\* as Rollback, but on a connection that autocommits every statement
RollbackKeepsInserts(committed, uncommitted) == uncommitted

\* the exception handler returns with neither conn.commit() nor conn.close(): the
\* connection is abandoned with its transaction open, no other connection ever sees
\* the uncommitted rows, and SQLite discards them when the connection is collected
Rollback(committed, uncommitted) == committed

\* as check_milestone_achievements, but inserting every threshold reached, with
\* neither the achieved_milestones test nor the UNIQUE constraint
check_milestone_achievements_blind(rows, defs, u, month, wager, fault, locked) ==
    LET stmts == StaticInserts(defs, u, month, wager, {}) \o LadderInserts(u, month, wager, {})
        ins[k \in 0..Len(stmts)] ==
            IF k = 0 THEN rows ELSE ins[k - 1] (+) SetToBag({stmts[k]})
    IN  IF fault # 0
        THEN [rows |-> rows, result |-> <<>>, ok |-> FALSE, applied |-> fault - 1,
              open_tx |-> FALSE]
        ELSE [rows |-> ins[Len(stmts)],
              result |-> [i \in DOMAIN stmts |->
                             [milestone_amount |-> stmts[i].milestone_amount,
                              bonus_amount |-> stmts[i].bonus_amount]],
              ok |-> TRUE, applied |-> Len(stmts), open_tx |-> FALSE]

\* fault = 0: no storage error from outside; fault = k > 0: the k-th statement
\* after the two SELECTs raises (k = number of INSERTs + 1 is conn.commit()).
\* locked: another connection holds the write lock, so the first INSERT raises
\* sqlite3.OperationalError (database is locked).
\* open_tx: the call abandoned its connection inside a write transaction.
check_milestone_achievements(rows, defs, u, month, wager, fault, locked) ==
    LET achieved == AchievedMilestones(rows, u, month)
        stmts == StaticInserts(defs, u, month, wager, achieved)
                 \o LadderInserts(u, month, wager, achieved)
        busy == locked /\ Len(stmts) > 0
        upto == IF busy THEN 0 ELSE IF fault = 0 THEN Len(stmts) ELSE fault - 1
        tx == ExecInserts(rows, stmts, upto)
        raised == busy \/ fault # 0 \/ tx.failed_at # 0
        applied == IF tx.failed_at # 0 THEN tx.failed_at - 1 ELSE upto
    IN  IF raised
        THEN [rows |-> Rollback(rows, tx.rows), result |-> <<>>, ok |-> FALSE,
              applied |-> applied, open_tx |-> applied > 0 \/ tx.failed_at # 0]
        ELSE [rows |-> tx.rows,
              result |-> [i \in DOMAIN stmts |->
                             [milestone_amount |-> stmts[i].milestone_amount,
                              bonus_amount |-> stmts[i].bonus_amount]],
              ok |-> TRUE, applied |-> applied, open_tx |-> FALSE]

\* MilestoneTracker.check_and_notify_milestones. bot: a bot instance is attached to the
\* tracker. With new achievements and a bot the tracker calls
\* get_user(goated_username=username); get_user takes telegram_id and discord_id only,
\* the call raises TypeError, and the except branch returns [] after the evaluation
\* has committed its rows.
check_and_notify_milestones(rows, defs, u, month, wager, locked, bot) ==
    LET out == check_milestone_achievements(rows, defs, u, month, wager, 0, locked)
        raised == out.result # <<>> /\ bot
    IN  [rows |-> out.rows, ok |-> out.ok, applied |-> out.applied,
         open_tx |-> out.open_tx,
         result |-> IF raised THEN <<>> ELSE out.result]

\* number of statements of the call at which a storage error can strike
FaultPoints(rows, defs, u, month, wager) ==
    LET achieved == AchievedMilestones(rows, u, month)
    IN  Len(StaticInserts(defs, u, month, wager, achieved))
        + Len(LadderInserts(u, month, wager, achieved)) + 1

(***************************************************************************)
(* get_next_milestone                                                      *)
(***************************************************************************)
NoMilestone == [found |-> FALSE, milestone_amount |-> 0, bonus_amount |-> 0, remaining |-> 0]

\* ((int(current_monthly_wager) // 50000) + 1) * 50000
Next50kMilestone(wager) == ((wager \div LadderStep) + 1) * LadderStep

\* SELECT * FROM milestone_definitions WHERE is_active = 1 AND milestone_amount > ?
\*   AND milestone_amount NOT IN (achieved this month) ORDER BY milestone_amount LIMIT 1
NextStandardMilestone(defs, achieved, wager) ==
    LET cand == {d \in defs : /\ d.is_active
                              /\ d.milestone_amount > wager
                              /\ d.milestone_amount \notin achieved}
    IN  IF cand = {} THEN NoMilestone
        ELSE LET d == CHOOSE x \in cand : \A y \in cand : x.milestone_amount <= y.milestone_amount
             IN  [found |-> TRUE, milestone_amount |-> d.milestone_amount,
                  bonus_amount |-> d.bonus_amount,
                  remaining |-> d.milestone_amount - wager]

\* fault: a storage error inside the call; the handler returns None
get_next_milestone(rows, defs, u, month, wager, fault) ==
    LET achieved == AchievedMilestones(rows, u, month)
        next_milestone == NextStandardMilestone(defs, achieved, wager)
        next_50k_milestone == Next50kMilestone(wager)
    IN  IF fault THEN NoMilestone
        ELSE IF /\ wager >= LadderBase
                /\ next_50k_milestone \notin achieved
                /\ (~next_milestone.found
                    \/ next_50k_milestone < next_milestone.milestone_amount)
        THEN [found |-> TRUE, milestone_amount |-> next_50k_milestone,
              bonus_amount |-> LadderBonus, remaining |-> next_50k_milestone - wager]
        ELSE next_milestone

(***************************************************************************)
(* mark_achievements_notified                                              *)
(***************************************************************************)
\* UPDATE milestone_achievements SET notified = 1
\*   WHERE username = ? AND milestone_amount IN (...)
\* locked: the UPDATE raises and the handler returns False
mark_achievements_notified(rows, u, amounts, locked) ==
    IF locked THEN [rows |-> rows, ok |-> FALSE] ELSE
    LET hit(r) == r.username = u /\ r.milestone_amount \in amounts
        upd(r) == IF hit(r) THEN [r EXCEPT !.notified = TRUE] ELSE r
        targets == {upd(r) : r \in DOMAIN rows}
    IN  [rows |-> [t \in targets |->
                     BagCardinality([r \in {x \in DOMAIN rows : upd(x) = t} |-> rows[r]])],
         ok |-> TRUE]

(***************************************************************************)
(* users: create_user, unregister_user                                     *)
(***************************************************************************)
\* telegram_id INTEGER UNIQUE, goated_username TEXT UNIQUE NOT NULL
UniqueUserOk(rows, r) ==
    \A x \in rows : x.telegram_id # r.telegram_id /\ x.goated_username # r.goated_username

\* str.lower() of the names of the model
lower(name) == IF name = "Ann" THEN "ann" ELSE name

\* find_player_by_username: the listed players with player['name'].lower() ==
\* username.lower(); the name of the one returned; validate_username
FoundPlayers(username) == {p \in PlayerNames : lower(p) = lower(username)}
CanonicalName(username) == CHOOSE p \in FoundPlayers(username) : TRUE
validate_username(username) == FoundPlayers(username) # {}

\* returns False when the INSERT raises: sqlite3.IntegrityError on a duplicate, or
\* (locked) sqlite3.OperationalError; after the IntegrityError the connection is left
\* with its write transaction open
create_user(rows, telegram_id, goated_username, locked) ==
    LET r == [telegram_id |-> telegram_id, goated_username |-> goated_username]
    IN  IF locked THEN [rows |-> rows, ok |-> FALSE, open_tx |-> FALSE]
        ELSE IF UniqueUserOk(rows, r)
        THEN [rows |-> rows \cup {r}, ok |-> TRUE, open_tx |-> FALSE]
        ELSE [rows |-> rows, ok |-> FALSE, open_tx |-> TRUE]

\* as DeleteAchievementsOf, but without the WHERE clause
DeleteAchievementsAll(rows, u) == EmptyBag

\* DELETE FROM milestone_achievements WHERE username = ?
DeleteAchievementsOf(rows, u) == RowsWhere(rows, LAMBDA r : r.username # u)

\* DELETE FROM milestone_requests WHERE username = ? OR telegram_id = ?
DeleteRequestsOf(reqs, u, telegram_id) ==
    SelectSeq(reqs, LAMBDA q : ~(q.username = u \/ q.telegram_id = telegram_id))

\* DELETE FROM wager_cache WHERE username = ?
DeleteWagerCacheOf(cache, u) == {c \in cache : c.username # u}

\* as DeleteLeaderboardCacheOf, but deleting nothing
KeepLeaderboardCache(cache, u) == cache

\* DELETE FROM leaderboard_cache WHERE username = ?
DeleteLeaderboardCacheOf(cache, u) == {c \in cache : c.username # u}

\* user not found: return False; else delete the user row and the user's rows of
\* milestone_achievements and milestone_requests, commit, return True;
\* locked: the first DELETE raises and the handler returns False
unregister_user(urows, arows, reqs, telegram_id, locked) ==
    LET found == {r \in urows : r.telegram_id = telegram_id}
    IN  IF found = {}
        THEN [users |-> urows, achievements |-> arows, requests |-> reqs,
              username |-> "", ok |-> FALSE]
        ELSE IF locked
        THEN [users |-> urows, achievements |-> arows, requests |-> reqs,
              username |-> (CHOOSE r \in found : TRUE).goated_username, ok |-> FALSE]
        ELSE LET u == (CHOOSE r \in found : TRUE).goated_username
             IN  [users |-> urows \ found,
                  achievements |-> DeleteAchievementsOf(arows, u),
                  requests |-> DeleteRequestsOf(reqs, u, telegram_id),
                  username |-> u, ok |-> TRUE]

(***************************************************************************)
(* milestone_requests: create_milestone_request,                           *)
(* update_milestone_request_status                                         *)
(***************************************************************************)
\* SELECT id FROM milestone_requests WHERE username = ? AND milestone_amount = ?
\*   AND month_year = ?
RequestExists(reqs, u, amount, month) ==
    \E i \in DOMAIN reqs : /\ reqs[i].username = u
                           /\ reqs[i].milestone_amount = amount
                           /\ reqs[i].month_year = month

\* NULL in the column processed_at
NoTime == -1

\* as RequestRow, but created as already approved by the requesting chat
RequestRowDecided(id, u, telegram_id, amount, bonus, month, at) ==
    [id |-> id, username |-> u, telegram_id |-> telegram_id, milestone_amount |-> amount,
     bonus_amount |-> bonus, month_year |-> month, requested_at |-> at,
     status |-> "approved", admin_notes |-> "NULL", processed_by |-> telegram_id,
     processed_at |-> at]

\* requested_at DEFAULT CURRENT_TIMESTAMP, status TEXT DEFAULT 'pending';
\* admin_notes, processed_by, processed_at default NULL
RequestRow(id, u, telegram_id, amount, bonus, month, at) ==
    [id |-> id, username |-> u, telegram_id |-> telegram_id, milestone_amount |-> amount,
     bonus_amount |-> bonus, month_year |-> month, requested_at |-> at,
     status |-> "pending", admin_notes |-> "NULL", processed_by |-> 0,
     processed_at |-> NoTime]

\* UNIQUE(username, milestone_amount, month_year): may row q be inserted into reqs?
UniqueRequestOk(reqs, q) ==
    \A i \in DOMAIN reqs : ~(/\ reqs[i].username = q.username
                              /\ reqs[i].milestone_amount = q.milestone_amount
                              /\ reqs[i].month_year = q.month_year)

\* as create_milestone_request, but with neither the existence check nor the
\* UNIQUE constraint
create_milestone_request_blind(reqs, seq, u, telegram_id, amount, bonus, month, at, locked) ==
    [rows |-> Append(reqs, RequestRow(seq + 1, u, telegram_id, amount, bonus, month, at)),
     seq |-> seq + 1, ok |-> TRUE]

\* as create_milestone_request, but with INSERT OR REPLACE and no existence check
create_milestone_request_replace(reqs, seq, u, telegram_id, amount, bonus, month, at, locked) ==
    LET q == [id |-> seq + 1, username |-> u, telegram_id |-> telegram_id,
              milestone_amount |-> amount, bonus_amount |-> bonus, month_year |-> month,
              requested_at |-> at, status |-> "pending", admin_notes |-> "NULL",
              processed_by |-> 0, processed_at |-> NoTime]
        others == SelectSeq(reqs, LAMBDA x : ~(/\ x.username = u
                                               /\ x.milestone_amount = amount
                                               /\ x.month_year = month))
    IN  IF locked THEN [rows |-> reqs, seq |-> seq, ok |-> FALSE]
        ELSE [rows |-> Append(others, q), seq |-> seq + 1, ok |-> TRUE]

\* returns False when the request exists, and through the exception handler when
\* the INSERT raises: sqlite3.IntegrityError, or (locked) sqlite3.OperationalError
create_milestone_request(reqs, seq, u, telegram_id, amount, bonus, month, at, locked) ==
    LET q == RequestRow(seq + 1, u, telegram_id, amount, bonus, month, at)
    IN  IF RequestExists(reqs, u, amount, month)
        THEN [rows |-> reqs, seq |-> seq, ok |-> FALSE]
        ELSE IF locked \/ ~UniqueRequestOk(reqs, q)
        THEN [rows |-> reqs, seq |-> seq, ok |-> FALSE]
        ELSE [rows |-> Append(reqs, q), seq |-> seq + 1, ok |-> TRUE]

\* as update_milestone_request_status, but without WHERE id = ?
update_milestone_request_status_all(reqs, request_id, status, admin_id, admin_notes, at, locked) ==
    IF locked THEN [rows |-> reqs, ok |-> FALSE] ELSE
    [rows |-> [i \in DOMAIN reqs |->
                  [reqs[i] EXCEPT !.status = status, !.processed_by = admin_id,
                                  !.processed_at = at, !.admin_notes = admin_notes]],
     ok |-> reqs # <<>>]

\* UPDATE milestone_requests SET status = ?, processed_by = ?,
\*   processed_at = CURRENT_TIMESTAMP, admin_notes = ? WHERE id = ?
\* success = cursor.rowcount > 0; locked: the UPDATE raises, the handler returns False
update_milestone_request_status(reqs, request_id, status, admin_id, admin_notes, at, locked) ==
    IF locked THEN [rows |-> reqs, ok |-> FALSE] ELSE
    [rows |-> [i \in DOMAIN reqs |->
                  IF reqs[i].id = request_id
                  THEN [reqs[i] EXCEPT !.status = status, !.processed_by = admin_id,
                                       !.processed_at = at,
                                       !.admin_notes = admin_notes]
                  ELSE reqs[i]],
     ok |-> \E i \in DOMAIN reqs : reqs[i].id = request_id]

RECURSIVE OrderByRequestedAt(_)
\* ORDER BY requested_at ASC: rows with equal requested_at stay in rowid order
OrderByRequestedAt(rows) ==
    IF rows = <<>> THEN <<>>
    ELSE LET h == Head(rows)
             rest == OrderByRequestedAt(Tail(rows))
             k == Cardinality({i \in DOMAIN rest : rest[i].requested_at < h.requested_at})
         IN  SubSeq(rest, 1, k) \o <<h>> \o SubSeq(rest, k + 1, Len(rest))

\* as get_pending_milestone_requests, but without WHERE status = 'pending'
get_all_milestone_requests(reqs) == OrderByRequestedAt(reqs)

\* SELECT * FROM milestone_requests WHERE status = 'pending' ORDER BY requested_at ASC
get_pending_milestone_requests(reqs) ==
    OrderByRequestedAt(SelectSeq(reqs, LAMBDA q : q.status = "pending"))

\* SELECT ma.* FROM milestone_achievements ma WHERE ma.username = ? AND ma.month_year = ?
\*   ORDER BY ma.milestone_amount
get_user_achievements(rows, u, month) ==
    LET mine == {r \in DOMAIN rows : r.username = u /\ r.month_year = month}
        amounts == SortedSeq({r.milestone_amount : r \in mine})
    IN  [i \in DOMAIN amounts |-> CHOOSE r \in mine : r.milestone_amount = amounts[i]]

\* requested_milestones: the thresholds of the user's requests of the month
\* (get_user_milestone_requests, keyed by milestone_amount)
RequestedMilestones(reqs, u, month) ==
    {reqs[i].milestone_amount : i \in {j \in DOMAIN reqs : /\ reqs[j].username = u
                                                            /\ reqs[j].month_year = month}}

\* f"request_milestone_{milestone_amount}_{bonus_amount}_{current_month_year}", as
\* the parts that split("_") yields
CallbackData(amount, bonus, month) == <<"request", "milestone", amount, bonus, month>>

\* the request buttons of get_milestone_progress_message: one per achievement of the
\* month whose threshold has no request
RequestButtons(rows, reqs, u, month) ==
    LET achievements == get_user_achievements(rows, u, month)
        requested_milestones == RequestedMilestones(reqs, u, month)
    IN  {CallbackData(achievements[i].milestone_amount, achievements[i].bonus_amount, month) :
            i \in {j \in DOMAIN achievements :
                      achievements[j].milestone_amount \notin requested_milestones}}

(***************************************************************************)
(* Table wager_cache (username PRIMARY KEY).                               *)
(***************************************************************************)
\* dict.get(key, default)
Get(d, key, default) == IF key \in DOMAIN d THEN d[key] ELSE default

\* the row cache_wager_data writes; cached_at DEFAULT CURRENT_TIMESTAMP
CacheRow(u, wager_data, cache_duration_minutes, at) ==
    [username |-> u,
     daily_wager |-> Get(wager_data, "daily_wager", 0),
     weekly_wager |-> Get(wager_data, "weekly_wager", 0),
     last_7_days_wager |-> Get(wager_data, "last_7_days_wager",
                               Get(wager_data, "weekly_wager", 0)),
     monthly_wager |-> Get(wager_data, "monthly_wager", 0),
     total_wager |-> Get(wager_data, "total_wager", 0),
     cached_at |-> at,
     expires_at |-> at + cache_duration_minutes * SecondsPerMinute]

\* as cache_wager_data, but with INSERT OR IGNORE
cache_wager_data_ignore(cache, u, wager_data, cache_duration_minutes, at, locked) ==
    IF locked THEN [rows |-> cache, ok |-> FALSE]
    ELSE IF \E c \in cache : c.username = u THEN [rows |-> cache, ok |-> TRUE]
    ELSE [rows |-> cache \cup {CacheRow(u, wager_data, cache_duration_minutes, at)},
          ok |-> TRUE]

\* INSERT OR REPLACE INTO wager_cache: the row of the username, if any, is deleted and
\* the new row inserted; locked: the INSERT raises, the handler returns False
cache_wager_data(cache, u, wager_data, cache_duration_minutes, at, locked) ==
    IF locked THEN [rows |-> cache, ok |-> FALSE]
    ELSE [rows |-> {c \in cache : c.username # u}
                      \cup {CacheRow(u, wager_data, cache_duration_minutes, at)},
          ok |-> TRUE]

\* get_cached_wager_data returned None
NoCached ==
    [found |-> FALSE, daily_wager |-> 0, weekly_wager |-> 0, last_7_days_wager |-> 0,
     monthly_wager |-> 0, total_wager |-> 0, username |-> "", last_updated |-> 0]

\* the dict get_cached_wager_data builds from a row
CachedDict(c, u) ==
    [found |-> TRUE, daily_wager |-> c.daily_wager, weekly_wager |-> c.weekly_wager,
     last_7_days_wager |-> c.last_7_days_wager, monthly_wager |-> c.monthly_wager,
     total_wager |-> c.total_wager, username |-> u, last_updated |-> c.cached_at]

\* as get_cached_wager_data, but WHERE ... expires_at >= now
get_cached_wager_data_late(cache, u, at) ==
    LET hit == {c \in cache : c.username = u /\ c.expires_at >= at}
    IN  IF hit = {} THEN NoCached ELSE CachedDict(CHOOSE c \in hit : TRUE, u)

\* SELECT * FROM wager_cache WHERE username = ? AND expires_at > now; fetchone()
get_cached_wager_data(cache, u, at) ==
    LET hit == {c \in cache : c.username = u /\ c.expires_at > at}
    IN  IF hit = {} THEN NoCached ELSE CachedDict(CHOOSE c \in hit : TRUE, u)

(***************************************************************************)
(* Table daily_wager_history (UNIQUE(username, date)); dates are the texts *)
(* strftime('%Y-%m-%d') produces, compared as texts.                       *)
(***************************************************************************)
IsLeap(y) == (y % 4 = 0 /\ y % 100 # 0) \/ y % 400 = 0

DaysInMonth(y, m) ==
    IF m = 2 THEN (IF IsLeap(y) THEN 29 ELSE 28)
    ELSE IF m \in {4, 6, 9, 11} THEN 30 ELSE 31

NextDate(d) ==
    IF d[3] < DaysInMonth(d[1], d[2]) THEN <<d[1], d[2], d[3] + 1>>
    ELSE IF d[2] < 12 THEN <<d[1], d[2] + 1, 1>>
    ELSE <<d[1] + 1, 1, 1>>

PrevDate(d) ==
    IF d[3] > 1 THEN <<d[1], d[2], d[3] - 1>>
    ELSE IF d[2] > 1 THEN <<d[1], d[2] - 1, DaysInMonth(d[1], d[2] - 1)>>
    ELSE <<d[1] - 1, 12, 31>>

RECURSIVE AddDays(_)
\* EpochDate + timedelta(days=n)
AddDays(n) ==
    IF n = 0 THEN EpochDate
    ELSE IF n > 0 THEN NextDate(AddDays(n - 1))
    ELSE PrevDate(AddDays(n + 1))

\* the calendar dates of the day numbers the clock and the cutoffs reach
Calendar ==
    [n \in (RollingDays - DefaultDaysToKeep)..(RollingDays + MaxDay) |-> AddDays(n)]

\* the calendar date of a day number
DateOfDay(n) == Calendar[n]

\* strftime('%Y-%m-%d'): four digits of the year, two of the month, two of the day
\* (the dashes, at fixed places, are left out)
strftime(d) ==
    <<d[1] \div 1000, (d[1] \div 100) % 10, (d[1] \div 10) % 10, d[1] % 10,
      d[2] \div 10, d[2] % 10, d[3] \div 10, d[3] % 10>>

\* a < b as SQLite compares two texts
TextLess(a, b) ==
    \E i \in 1..(Min({Len(a), Len(b)}) + 1) :
        /\ \A j \in 1..(i - 1) : a[j] = b[j]
        /\ i <= Len(b)
        /\ i <= Len(a) => a[i] < b[i]

\* as record_daily_wager, but adding to the amount of the day
record_daily_wager_add(rows, u, daily_wager, total_wager, date, locked) ==
    IF locked THEN [rows |-> rows, ok |-> FALSE]
    ELSE LET old == {r \in rows : r.username = u /\ r.date = date}
             sum == IF old = {} THEN daily_wager
                    ELSE (CHOOSE r \in old : TRUE).daily_wager + daily_wager
         IN  [rows |-> (rows \ old) \cup {[username |-> u, date |-> date,
                                            daily_wager |-> sum,
                                            total_wager |-> total_wager]},
              ok |-> TRUE]

\* INSERT OR REPLACE INTO daily_wager_history (username, date, daily_wager,
\* total_wager): the row of (username, date), if any, is deleted and the new one
\* inserted; locked: the INSERT raises, the handler returns False
record_daily_wager(rows, u, daily_wager, total_wager, date, locked) ==
    IF locked THEN [rows |-> rows, ok |-> FALSE]
    ELSE [rows |-> {r \in rows : ~(r.username = u /\ r.date = date)}
                      \cup {[username |-> u, date |-> date, daily_wager |-> daily_wager,
                             total_wager |-> total_wager]},
          ok |-> TRUE]

RECURSIVE SumDaily(_)
\* SUM(daily_wager) over a set of rows, 0 for none ("result[0] is None -> 0.0")
SumDaily(rows) ==
    IF rows = {} THEN 0
    ELSE LET r == CHOOSE x \in rows : TRUE
         IN  r.daily_wager + SumDaily(rows \ {r})

\* as calculate_rolling_7_day_wager, but WHERE ... date >= seven_days_ago
calculate_rolling_8_day_wager(rows, u, day) ==
    LET seven_days_ago == strftime(DateOfDay(day - RollingDays))
        today_text == strftime(DateOfDay(day))
    IN  SumDaily({r \in rows : /\ r.username = u
                                /\ ~TextLess(r.date, seven_days_ago)
                                /\ ~TextLess(today_text, r.date)})

\* SELECT SUM(daily_wager) FROM daily_wager_history
\*   WHERE username = ? AND date > seven_days_ago AND date <= today
calculate_rolling_7_day_wager(rows, u, day) ==
    LET seven_days_ago == strftime(DateOfDay(day - RollingDays))
        today_text == strftime(DateOfDay(day))
    IN  SumDaily({r \in rows : /\ r.username = u
                                /\ TextLess(seven_days_ago, r.date)
                                /\ ~TextLess(today_text, r.date)})

\* as cleanup_old_daily_wager_data, but with the running day as the cutoff
cleanup_before_today(rows, days_to_keep, day, locked) ==
    IF locked THEN [rows |-> rows, ok |-> FALSE]
    ELSE [rows |-> {r \in rows : ~TextLess(r.date, strftime(DateOfDay(day)))},
          ok |-> TRUE]

\* cutoff_date = (now - timedelta(days=days_to_keep)).strftime('%Y-%m-%d');
\* DELETE FROM daily_wager_history WHERE date < cutoff_date
cleanup_old_daily_wager_data(rows, days_to_keep, day, locked) ==
    IF locked THEN [rows |-> rows, ok |-> FALSE]
    ELSE LET cutoff_date == strftime(DateOfDay(day - days_to_keep))
         IN  [rows |-> {r \in rows : ~TextLess(r.date, cutoff_date)}, ok |-> TRUE]

\* GoatedAPI.get_player_wager_stats: None when the player is not found; else today's
\* wager is recorded (date = None: today) and the rolling sum is part of the result
\* what a request to the affiliate API can end with: a response with a status, the
\* timeout of the session (asyncio.TimeoutError), a transport error
\* (aiohttp.ClientError)
Outcomes == {"200", "401", "404", "500", "timeout", "ClientError"}

\* GoatedAPI._make_request and find_player_by_username on its result: the listed
\* player for status 200, None for every other status and for every exception
make_request(outcome, player) == IF outcome = "200" THEN player ELSE NoPlayer

\* what find_player_by_username returns for the players and outcomes
Answers(Players) == {make_request(o, p) : o \in Outcomes, p \in Players \cup {NoPlayer}}

\* as get_player_wager_stats, but recording the day's wager before it looks at what
\* find_player_by_username returned
get_player_wager_stats_early(rows, u, player, day, locked) ==
    LET name == CanonicalName(u)
        rec == record_daily_wager(rows, name, player.today, player.all_time,
                                  strftime(DateOfDay(day)), locked)
    IN  IF ~player.found \/ ~validate_username(u)
        THEN [rows |-> rec.rows, found |-> FALSE, data |-> <<>>]
        ELSE [rows |-> rec.rows, found |-> TRUE,
              data |-> [username |-> name,
                        daily_wager |-> player.today,
                        weekly_wager |-> player.this_week,
                        last_7_days_wager |->
                            calculate_rolling_7_day_wager(rec.rows, name, day),
                        monthly_wager |-> player.this_month,
                        total_wager |-> player.all_time]]

get_player_wager_stats(rows, u, player, day, locked) ==
    IF ~player.found \/ ~validate_username(u)
    THEN [rows |-> rows, found |-> FALSE, data |-> <<>>]
    ELSE LET name == CanonicalName(u)
             rec == record_daily_wager(rows, name, player.today, player.all_time,
                                       strftime(DateOfDay(day)), locked)
         IN  [rows |-> rec.rows, found |-> TRUE,
              data |-> [username |-> name,
                        daily_wager |-> player.today,
                        weekly_wager |-> player.this_week,
                        last_7_days_wager |->
                            calculate_rolling_7_day_wager(rec.rows, name, day),
                        monthly_wager |-> player.this_month,
                        total_wager |-> player.all_time]]

(***************************************************************************)
(* Table leaderboard_cache (username PRIMARY KEY).                         *)
(***************************************************************************)
\* INSERT OR REPLACE INTO leaderboard_cache; the ranks and wagers of the position,
\* last_7_days_rank falling back to weekly_rank
cache_leaderboard_data(cache, u, leaderboard_data, cache_duration_minutes, at, locked) ==
    IF locked THEN [rows |-> cache, ok |-> FALSE]
    ELSE [rows |-> {c \in cache : c.username # u}
              \cup {[username |-> u,
                     daily_rank |-> Get(leaderboard_data, "daily_rank", 0),
                     weekly_rank |-> Get(leaderboard_data, "weekly_rank", 0),
                     last_7_days_rank |-> Get(leaderboard_data, "last_7_days_rank",
                                              Get(leaderboard_data, "weekly_rank", 0)),
                     monthly_rank |-> Get(leaderboard_data, "monthly_rank", 0),
                     all_time_rank |-> Get(leaderboard_data, "all_time_rank", 0),
                     total_players |-> Get(leaderboard_data, "total_players", 0),
                     player_monthly |-> Get(leaderboard_data, "player_monthly", 0),
                     player_last_7_days |-> Get(leaderboard_data, "player_last_7_days",
                                                Get(leaderboard_data, "player_weekly", 0)),
                     cached_at |-> at,
                     expires_at |-> at + cache_duration_minutes * SecondsPerMinute]},
          ok |-> TRUE]

\* SELECT * FROM leaderboard_cache WHERE username = ? AND expires_at > now: whether
\* a row is returned
get_cached_leaderboard_data(cache, u, at) ==
    \E c \in cache : c.username = u /\ c.expires_at > at

\* GoatedAPI.get_player_leaderboard_position: None when the player is not found; else
\* the ranks among the listed players and the rolling sum of the ledger
get_player_leaderboard_position(rows, u, player, rank, day) ==
    IF ~player.found \/ ~validate_username(u) THEN [found |-> FALSE, data |-> <<>>]
    ELSE LET name == CanonicalName(u)
         IN  [found |-> TRUE,
              data |-> [username |-> name,
                        daily_rank |-> rank, weekly_rank |-> rank,
                        last_7_days_rank |-> rank, monthly_rank |-> rank,
                        all_time_rank |-> rank,
                        total_players |-> Cardinality(PlayerNames),
                        player_weekly |-> player.this_week,
                        player_monthly |-> player.this_month,
                        player_last_7_days |->
                            calculate_rolling_7_day_wager(rows, name, day)]]

(***************************************************************************)
(* Observation of calls: the last operation with its arguments and return  *)
(* value, and per username the highest wager evaluated in the running      *)
(* month.                                                                  *)
(***************************************************************************)
(***************************************************************************)
(* log_command_usage                                                       *)
(***************************************************************************)
\* as log_command_usage, but returning False when the INSERT raises database is locked
log_command_usage_strict(stats, telegram_id, command, success, locked) ==
    IF locked THEN [rows |-> stats, ok |-> FALSE]
    ELSE [rows |-> Append(stats, [telegram_id |-> telegram_id, command |-> command,
                                  success |-> success]),
          ok |-> TRUE]

\* a connection of its own with timeout 2.0 and no db_manager._lock; locked: another
\* connection holds the write lock, the INSERT raises sqlite3.OperationalError
\* (database is locked) when the timeout has passed, and the handler returns True
log_command_usage(stats, telegram_id, command, success, locked) ==
    IF locked THEN [rows |-> stats, ok |-> TRUE]
    ELSE [rows |-> Append(stats, [telegram_id |-> telegram_id, command |-> command,
                                  success |-> success]),
          ok |-> TRUE]

NoRet ==
    [op |-> "none", username |-> "", telegram_id |-> 0, month |-> "", wager |-> 0,
     ok |-> TRUE,
     result |-> <<>>,      \* the list check_milestone_achievements returned
     before |-> {},        \* thresholds the user held for the month when the call began
     applied |-> 0,        \* INSERTs the call had executed when it ended
     prev |-> "none",      \* the operation before: "ok" / "aborted" evaluation of the
                           \* same user in the same month, or "none"
     prev_le |-> FALSE,    \* ... whose wager was not above this call's
     prev_fresh |-> FALSE, \* ... which began with nothing held for the month
     next |-> NoMilestone, \* what get_next_milestone returned
     amount |-> 0, request_id |-> 0, status |-> "",
     existed |-> FALSE,    \* a request with the key was stored when create began
     locked |-> FALSE,     \* the database was write-locked when the operation began
     pending |-> <<>>,     \* the list get_pending_milestone_requests returned
     cached |-> NoCached,  \* what get_cached_wager_data returned
     stale |-> FALSE,      \* ... while a row of the username was stored
     fetched |-> FALSE,    \* get_player_wager_stats was called and returned statistics
     data |-> <<>>,        \* what get_player_wager_stats returned, <<>> for None
     rolling |-> 0,        \* what calculate_rolling_7_day_wager returned
     rolling_before |-> 0, \* ... and what it would have returned before the call
     replaced |-> 0,       \* the amount the ledger held for the user and day
     days_to_keep |-> 0,   \* the argument of cleanup_old_daily_wager_data
     deleted |-> 0,        \* ... and the rows it deleted (cursor.rowcount)
     purged |-> {},        \* the tables that held rows of the user when unregister_user
                           \* began
     key |-> "",           \* the username the handler addressed the cache by
     holder |-> 0,         \* the task that held db_manager._lock when the operation ran
     raised |-> FALSE]     \* an exception left the operation

\* as Propagates, but for a handler that logs the exception and raises it again
PropagatesAll(raised) == raised

\* async with db_manager._lock: try: ... except Exception as e: logger.error(...);
\* return <failure value>: whether an exception raised inside the try block, which
\* holds every statement of the operation, leaves the operation
Propagates(raised) == FALSE

Amounts(result) == {result[i].milestone_amount : i \in DOMAIN result}

\* thresholds for which the table holds a row of user u and month m
Held(rows, u, m) ==
    {a \in {r.milestone_amount : r \in DOMAIN rows} :
        \E r \in DOMAIN rows : r.username = u /\ r.month_year = m /\ r.milestone_amount = a}

\* number of rows, copies counted, with the key (u, a, m)
Copies(rows, u, a, m) ==
    LET S == {r \in DOMAIN rows : r.username = u /\ r.milestone_amount = a /\ r.month_year = m}
    IN  BagCardinality([r \in S |-> rows[r]])

\* positions of the request rows with the key (u, a, m)
RequestsWithKey(reqs, u, a, m) ==
    {i \in DOMAIN reqs : /\ reqs[i].username = u
                          /\ reqs[i].milestone_amount = a
                          /\ reqs[i].month_year = m}

\* the 50k ladder above 100k, up to and including limit
Ladder(limit) ==
    {a \in {LadderBase + k * LadderStep : k \in 1..(limit \div LadderStep)} : a <= limit}

\* thresholdsCrossed(w): active definitions reached by w and ladder values reached by w
Crossed(defs, w) ==
    {d.milestone_amount : d \in {x \in defs : x.is_active /\ x.milestone_amount <= w}}
        \cup Ladder(w)

\* ret of an evaluation of (u, m, w) with outcome out, begun in a state whose last
\* operation was last
CheckRet(last, rows, u, m, w, out) ==
    LET same == last.op = "check_milestone_achievements" /\ last.username = u /\ last.month = m
    IN  [NoRet EXCEPT !.op = "check_milestone_achievements",
                      !.username = u, !.month = m, !.wager = w,
                      !.ok = out.ok, !.result = out.result,
                      !.before = Held(rows, u, m),
                      !.applied = out.applied,
                      !.locked = write_locked,
                      !.raised = Propagates(~out.ok),
                      !.prev = IF ~same THEN "none" ELSE IF last.ok THEN "ok" ELSE "aborted",
                      !.prev_le = same /\ last.wager <= w,
                      !.prev_fresh = same /\ last.before = {}]

(***************************************************************************)
(* The event loop: tasks running command handlers, and db_manager._lock,   *)
(* the asyncio.Lock every operation of the storage layer holds from its    *)
(* first statement to its return.                                          *)
(***************************************************************************)
\* the tasks of the event loop that run command handlers
TaskIds == {1, 2}

\* the commands of the chats
Commands == {"wager", "milestones", "leaderboard", "request", "unregister"}

\* the awaits of a handler that wait for the affiliate API
FetchOps == {"find_player_by_username", "_make_request"}

\* a task that runs no command
IdleTask ==
    [pc |-> "idle",       \* "request": about to call an operation; "waiting": queued for
                          \* the lock; "inside": holding it; "fetching": awaiting the API
     cmd |-> "none",
     todo |-> <<>>,       \* the awaits the handler still has to make, next first
     telegram_id |-> 0, username |-> "",
     player |-> NoPlayer, \* what find_player_by_username returned
     wager |-> 0,         \* monthly_wager of the statistics the handler holds
     rolling |-> 0,       \* what calculate_rolling_7_day_wager returned
     read |-> FALSE,      \* check_milestone_achievements has done its SELECTs
     snapshot |-> {},     \* ... and the achieved_milestones it read
     woken |-> FALSE,     \* the future the task waits on has its result
     waited |-> FALSE,    \* the last acquire had to queue
     exit |-> "none",     \* how the last operation left its critical section:
                          \* "return", "early" (return inside the body), "exception"
     check |-> "none",    \* the evaluation of this command: "called", "ok", "failed"
     overlap |-> FALSE,   \* ... was called while the other task's evaluation of the
                          \* same user was called and not complete, or the reverse
     result |-> <<>>]     \* ... and the list it returned

\* the awaits of a handler up to its first decision
Program(cmd) ==
    CASE cmd = "wager" -> <<"get_user", "get_cached_wager_data">>
      [] cmd = "milestones" -> <<"get_user", "get_cached_wager_data">>
      [] cmd = "leaderboard" -> <<"get_user", "get_cached_leaderboard_data">>
      [] cmd = "request" -> <<"get_user", "create_milestone_request">>
      [] cmd = "unregister" -> <<"get_user", "unregister_user">>

\* GoatedAPI.get_player_wager_stats and the cache_wager_data that follows it
FetchStatsOps ==
    <<"find_player_by_username", "record_daily_wager", "calculate_rolling_7_day_wager",
      "cache_wager_data">>

\* what the handler does with the statistics: check_and_notify_milestones and
\* update_user (/wager), get_milestone_progress_message (/milestones)
AfterStats(cmd) ==
    IF cmd = "wager" THEN <<"check_milestone_achievements", "update_user">>
    ELSE <<"get_user_achievements", "get_next_milestone", "get_user_milestone_requests">>

\* GoatedAPI.get_player_leaderboard_position and the cache_leaderboard_data after it
FetchPositionOps ==
    <<"find_player_by_username", "_make_request", "calculate_rolling_7_day_wager",
      "cache_leaderboard_data">>

\* as CanAcquire, but for a lock that lets every caller in
CanAcquireAlways(g, w) == TRUE

\* asyncio.Lock.acquire, the path without waiting: not self._locked and no waiter
\* (no waiter is ever cancelled)
CanAcquire(g, w) == g = 0 /\ w = <<>>

\* as GateAfterExit, but for a critical section that reaches over a request to the
\* affiliate API that follows it
GateOverFetch(g, exit, todo) ==
    IF todo # <<>> /\ Head(todo) \in FetchOps THEN g ELSE 0

\* as GateAfterExit, but releasing only when the body ran to its end
GateAfterReturn(g, exit, todo) == IF exit = "return" THEN 0 ELSE g

\* async with db_manager._lock: __aexit__ calls release() however the body ends and
\* whatever the caller awaits next (todo)
GateAfterExit(g, exit, todo) == 0

\* the position of a task whose handler continues with the awaits todo
PcOf(todo) ==
    IF todo = <<>> THEN "idle"
    ELSE IF Head(todo) \in FetchOps THEN "fetching" ELSE "request"

\* the INSERTs of check_milestone_achievements for the achieved_milestones it read
check_milestone_inserts(rows, defs, u, month, wager, achieved) ==
    LET stmts == StaticInserts(defs, u, month, wager, achieved)
                 \o LadderInserts(u, month, wager, achieved)
        tx == ExecInserts(rows, stmts, Len(stmts))
    IN  IF tx.failed_at # 0
        THEN [rows |-> Rollback(rows, tx.rows), result |-> <<>>, ok |-> FALSE]
        ELSE [rows |-> tx.rows,
              result |-> [i \in DOMAIN stmts |->
                             [milestone_amount |-> stmts[i].milestone_amount,
                              bonus_amount |-> stmts[i].bonus_amount]],
              ok |-> TRUE]

Init ==
    /\ users = {}
    /\ milestone_definitions = DefaultDefinitions
    /\ milestone_achievements = EmptyBag
    /\ milestone_requests = <<>>
    /\ request_seq = 0
    /\ clock = 1
    /\ write_locked = FALSE
    /\ wager_cache = {}
    /\ daily_wager_history = {}
    /\ buttons = {}
    /\ now = 0
    /\ today = RollingDays
    /\ leaderboard_cache = {}
    /\ gate = 0
    /\ waiters = <<>>
    /\ tasks = [t \in TaskIds |-> IdleTask]
    /\ ret = NoRet
    /\ evaluated = [u \in TypedNames |-> -1]
    /\ bot_stats = <<>>
    /\ request_count = <<>>
    /\ sent = <<>>

\* as Init, with a table milestone_definitions that held rows before init_database
InitDefinitions ==
    /\ users = {}
    /\ milestone_definitions \in DefinitionSets
    /\ milestone_achievements = EmptyBag
    /\ milestone_requests = <<>>
    /\ request_seq = 0
    /\ clock = 1
    /\ write_locked = FALSE
    /\ wager_cache = {}
    /\ daily_wager_history = {}
    /\ buttons = {}
    /\ now = 0
    /\ today = RollingDays
    /\ leaderboard_cache = {}
    /\ gate = 0
    /\ waiters = <<>>
    /\ tasks = [t \in TaskIds |-> IdleTask]
    /\ ret = NoRet
    /\ evaluated = [u \in TypedNames |-> -1]
    /\ bot_stats = <<>>
    /\ request_count = <<>>
    /\ sent = <<>>

\* as Init, with a table milestone_definitions in which flags were cleared
InitFlags ==
    /\ users = {}
    /\ milestone_definitions \in FlaggedDefinitionSets
    /\ milestone_achievements = EmptyBag
    /\ milestone_requests = <<>>
    /\ request_seq = 0
    /\ clock = 1
    /\ write_locked = FALSE
    /\ wager_cache = {}
    /\ daily_wager_history = {}
    /\ buttons = {}
    /\ now = 0
    /\ today = RollingDays
    /\ leaderboard_cache = {}
    /\ gate = 0
    /\ waiters = <<>>
    /\ tasks = [t \in TaskIds |-> IdleTask]
    /\ ret = NoRet
    /\ evaluated = [u \in TypedNames |-> -1]
    /\ bot_stats = <<>>
    /\ request_count = <<>>
    /\ sent = <<>>

(***************************************************************************)
(* Actions: one per operation of the storage layer, called as the command  *)
(* handlers call them (for the goated_username of a row of users). Each    *)
(* takes the set its inputs are drawn from. The monthly wager a handler    *)
(* reads from wager_cache or fetches is the input w of CheckMilestones and *)
(* NextMilestone; WagerCommand is /wager with lookup, fetch and caching.    *)
(***************************************************************************)
\* /register: get_user(user.id); validate_username(username);
\* create_user(user.id, user.username, username)
Register(Accounts) ==
    \E acc \in Accounts :
        LET t == acc[1]
            u == acc[2]
            called == (\A r \in users : r.telegram_id # t) /\ validate_username(u)
            out == IF called THEN create_user(users, t, u, write_locked)
                   ELSE [rows |-> users, ok |-> FALSE, open_tx |-> FALSE]
        IN  /\ users' = out.rows
            /\ write_locked' = (write_locked \/ out.open_tx)
            /\ ret' = [NoRet EXCEPT !.op = IF called THEN "create_user"
                                           ELSE "register_handler",
                                    !.username = u,
                                    !.telegram_id = t, !.ok = out.ok,
                                    !.locked = write_locked,
                                    !.prev = IF /\ ret.op = "unregister_user" /\ ret.ok
                                                /\ ret.username = u
                                             THEN "unregistered" ELSE "none",
                                    !.purged = IF /\ ret.op = "unregister_user" /\ ret.ok
                                                  /\ ret.username = u
                                               THEN ret.purged ELSE {}]
            /\ UNCHANGED <<leaderboard_cache, gate, waiters, tasks>>
            /\ UNCHANGED <<wager_cache, daily_wager_history, buttons, now, today>>
            /\ UNCHANGED <<milestone_definitions, bot_stats, request_count, sent, milestone_achievements,
                           milestone_requests, request_seq, clock, evaluated>>

\* /unregister confirmed: unregister_user(user.id)
Unregister(Tids) ==
    \E t \in Tids :
        LET out == unregister_user(users, milestone_achievements, milestone_requests, t,
                                   write_locked)
        IN  /\ users' = out.users
            /\ milestone_achievements' = out.achievements
            /\ milestone_requests' = out.requests
            /\ evaluated' = IF out.ok THEN [evaluated EXCEPT ![out.username] = -1]
                            ELSE evaluated
            /\ ret' = [NoRet EXCEPT
                          !.op = "unregister_user", !.username = out.username,
                          !.telegram_id = t, !.ok = out.ok,
                          !.locked = write_locked,
                          !.purged =
                              IF ~out.ok THEN {}
                              ELSE {"achievements" : x \in {a \in DOMAIN milestone_achievements :
                                                               a.username = out.username}}
                                   \cup {"requests" : i \in {j \in DOMAIN milestone_requests :
                                              milestone_requests[j].username = out.username}}
                                   \cup {"wager_cache" : c \in {d \in wager_cache :
                                                                d.username = out.username}}
                                   \cup {"leaderboard_cache" : c \in {d \in leaderboard_cache :
                                                                d.username = out.username}}]
            /\ leaderboard_cache' = IF out.ok
                                    THEN DeleteLeaderboardCacheOf(leaderboard_cache,
                                                                  out.username)
                                    ELSE leaderboard_cache
            /\ wager_cache' = IF out.ok THEN DeleteWagerCacheOf(wager_cache, out.username)
                              ELSE wager_cache
            /\ UNCHANGED <<gate, waiters, tasks>>
            /\ UNCHANGED <<daily_wager_history, buttons, now, today>>
            /\ UNCHANGED <<milestone_definitions, bot_stats, request_count, sent, request_seq, clock, write_locked>>

\* /wager: check_milestone_achievements(username, monthly_wager)
CheckMilestones(W, F) ==
    \E r \in users, w \in W :
        LET u == r.goated_username
            m == current_month_year
            n == FaultPoints(milestone_achievements, milestone_definitions, u, m, w)
        IN  \E fault \in {Min({f, n}) : f \in F} :
            LET out == check_milestone_achievements(milestone_achievements,
                           milestone_definitions, u, m, w, fault, write_locked)
            IN  /\ milestone_achievements' = out.rows
                /\ write_locked' = (write_locked \/ out.open_tx)
                /\ evaluated' = IF out.ok /\ w > evaluated[u]
                                THEN [evaluated EXCEPT ![u] = w] ELSE evaluated
                /\ ret' = CheckRet(ret, milestone_achievements, u, m, w, out)
                /\ UNCHANGED <<leaderboard_cache, gate, waiters, tasks>>
                /\ UNCHANGED <<wager_cache, daily_wager_history, buttons, now, today>>
                /\ UNCHANGED <<users, milestone_definitions, bot_stats, request_count, sent, milestone_requests,
                               request_seq, clock>>

\* /wager: milestone_tracker.check_and_notify_milestones(username, monthly_wager)
CheckAndNotify(W, Bots) ==
    \E r \in users, w \in W, bot \in Bots :
        LET u == r.goated_username
            m == current_month_year
        IN  \E out \in {check_and_notify_milestones(milestone_achievements,
                            milestone_definitions, u, m, w, write_locked, bot)} :
            /\ milestone_achievements' = out.rows
            /\ write_locked' = (write_locked \/ out.open_tx)
            /\ evaluated' = IF out.ok /\ w > evaluated[u]
                            THEN [evaluated EXCEPT ![u] = w] ELSE evaluated
            /\ ret' = [NoRet EXCEPT !.op = "check_and_notify_milestones",
                                    !.username = u, !.month = m, !.wager = w,
                                    !.ok = out.ok, !.result = out.result,
                                    !.before = Held(milestone_achievements, u, m),
                                    !.applied = out.applied,
                                    !.locked = write_locked]
            /\ UNCHANGED <<users, milestone_definitions, bot_stats, request_count, sent, milestone_requests,
                           request_seq, clock, wager_cache, daily_wager_history,
                           buttons, now, today, leaderboard_cache, gate, waiters,
                           tasks>>

\* /milestones: get_next_milestone(username, monthly_wager)
NextMilestone(W) ==
    \E r \in users, w \in W :
        LET u == r.goated_username
            m == current_month_year
        IN  /\ ret' = [NoRet EXCEPT !.op = "get_next_milestone", !.username = u,
                                    !.month = m, !.wager = w,
                                    !.before = Held(milestone_achievements, u, m),
                                    !.next = get_next_milestone(milestone_achievements,
                                                milestone_definitions, u, m, w, FALSE),
                                    !.raised = Propagates(FALSE),
                                    !.locked = write_locked]
            /\ UNCHANGED <<leaderboard_cache, gate, waiters, tasks>>
            /\ UNCHANGED <<wager_cache, daily_wager_history, buttons, now, today>>
            /\ UNCHANGED <<users, milestone_definitions, bot_stats, request_count, sent, milestone_achievements,
                           milestone_requests, request_seq, clock, write_locked,
                           evaluated>>

\* mark_achievements_notified(username, amounts), with the amounts that the
\* evaluation just before returned, as check_and_notify_milestones passes them
MarkNotified ==
    /\ ret.op = "check_milestone_achievements"
    /\ ret.result # <<>>
    /\ LET out == mark_achievements_notified(milestone_achievements, ret.username,
                                              Amounts(ret.result), write_locked)
       IN  /\ milestone_achievements' = out.rows
           /\ ret' = [NoRet EXCEPT !.op = "mark_achievements_notified",
                                   !.username = ret.username, !.ok = out.ok,
                                   !.locked = write_locked]
    /\ UNCHANGED <<leaderboard_cache, gate, waiters, tasks>>
    /\ UNCHANGED <<wager_cache, daily_wager_history, buttons, now, today>>
    /\ UNCHANGED <<users, milestone_definitions, bot_stats, request_count, sent, milestone_requests, request_seq, clock,
                   write_locked, evaluated>>

\* request button: create_milestone_request(username, user.id, amount, bonus, month_year)
CreateRequest(A) ==
    \E r \in users, a \in A, k \in 1..clock :
        LET u == r.goated_username
            out == create_milestone_request(milestone_requests, request_seq, u,
                                            r.telegram_id, a, LadderBonus, MonthNames[k],
                                            now, write_locked)
        IN  /\ request_seq < MaxRequests
            /\ milestone_requests' = out.rows
            /\ request_seq' = out.seq
            /\ ret' = [NoRet EXCEPT !.op = "create_milestone_request", !.username = u,
                                    !.telegram_id = r.telegram_id, !.month = MonthNames[k],
                                    !.amount = a, !.ok = out.ok,
                                    !.existed = RequestsWithKey(milestone_requests, u, a,
                                                                MonthNames[k]) # {},
                                    !.request_id = IF out.ok THEN out.seq ELSE 0,
                                    !.raised = Propagates(write_locked /\ ~out.ok),
                                    !.locked = write_locked]
            /\ UNCHANGED <<leaderboard_cache, gate, waiters, tasks>>
            /\ UNCHANGED <<wager_cache, daily_wager_history, buttons, now, today>>
            /\ UNCHANGED <<users, milestone_definitions, bot_stats, request_count, sent, milestone_achievements, clock,
                           write_locked, evaluated>>

\* /approve_request, /deny_request: update_milestone_request_status(id, status, admin, notes)
ResolveRequest ==
    \E id \in 1..MaxRequests, st \in {"approved", "denied"}, admin \in AdminIds :
        LET out == update_milestone_request_status(milestone_requests, id, st, admin, st,
                                                   now, write_locked)
        IN  /\ milestone_requests' = out.rows
            /\ ret' = [NoRet EXCEPT !.op = "update_milestone_request_status",
                                    !.request_id = id, !.status = st, !.ok = out.ok,
                                    !.raised = Propagates(write_locked),
                                    !.locked = write_locked]
            /\ UNCHANGED <<leaderboard_cache, gate, waiters, tasks>>
            /\ UNCHANGED <<wager_cache, daily_wager_history, buttons, now, today>>
            /\ UNCHANGED <<users, milestone_definitions, bot_stats, request_count, sent, milestone_achievements,
                           request_seq, clock, write_locked, evaluated>>

\* /milestones: the progress message with its request buttons reaches the chat
ShowProgress ==
    \E r \in users :
        LET u == r.goated_username
            m == current_month_year
            shown == RequestButtons(milestone_achievements, milestone_requests, u, m)
        IN  /\ buttons' = buttons \cup {[telegram_id |-> r.telegram_id, data |-> d] :
                                            d \in shown}
            /\ ret' = [NoRet EXCEPT !.op = "get_milestone_progress_message",
                                    !.username = u, !.telegram_id = r.telegram_id,
                                    !.month = m]
            /\ UNCHANGED <<leaderboard_cache, gate, waiters, tasks>>
            /\ UNCHANGED <<users, milestone_definitions, bot_stats, request_count, sent, milestone_achievements,
                           milestone_requests, request_seq, clock, write_locked,
                           wager_cache, daily_wager_history, now, today, evaluated>>

\* a request button is pressed: milestone_callback_handler parses the callback data
\* and calls create_milestone_request for the account the chat is registered with
PressButton ==
    \E b \in buttons, r \in users :
        LET u == r.goated_username
            milestone_amount == b.data[3]
            bonus_amount == b.data[4]
            month_year == b.data[5]
            out == create_milestone_request(milestone_requests, request_seq, u,
                                            r.telegram_id, milestone_amount, bonus_amount,
                                            month_year, now, write_locked)
        IN  /\ r.telegram_id = b.telegram_id
            /\ request_seq < MaxRequests
            /\ milestone_requests' = out.rows
            /\ request_seq' = out.seq
            /\ ret' = [NoRet EXCEPT !.op = "create_milestone_request", !.username = u,
                                    !.telegram_id = r.telegram_id, !.month = month_year,
                                    !.amount = milestone_amount, !.ok = out.ok,
                                    !.existed = RequestsWithKey(milestone_requests, u,
                                                    milestone_amount, month_year) # {},
                                    !.request_id = IF out.ok THEN out.seq ELSE 0,
                                    !.raised = Propagates(write_locked /\ ~out.ok),
                                    !.locked = write_locked]
            /\ UNCHANGED <<leaderboard_cache, gate, waiters, tasks>>
            /\ UNCHANGED <<users, milestone_definitions, bot_stats, request_count, sent, milestone_achievements, clock,
                           write_locked, wager_cache, daily_wager_history, buttons, now,
                           today, evaluated>>

\* /pending_requests: get_pending_milestone_requests()
ListPending ==
    /\ ret' = [NoRet EXCEPT !.op = "get_pending_milestone_requests",
                            !.pending = get_pending_milestone_requests(milestone_requests)]
    /\ UNCHANGED <<leaderboard_cache, gate, waiters, tasks>>
    /\ UNCHANGED <<users, milestone_definitions, bot_stats, request_count, sent, milestone_achievements,
                   milestone_requests, request_seq, clock, write_locked, wager_cache,
                   daily_wager_history, buttons, now, today, evaluated>>

\* /wager: the cached statistics of the user, or on a miss the statistics fetched from
\* the affiliate API and cached; then the milestone check on the monthly wager
WagerCommand(Players) ==
    \E r \in users, player \in Players \cup {NoPlayer} :
        LET u == r.goated_username
            hit == get_cached_wager_data(wager_cache, u, now)
            fetched == IF hit.found
                       THEN [rows |-> daily_wager_history, found |-> FALSE, data |-> <<>>]
                       ELSE get_player_wager_stats(daily_wager_history, u, player, today,
                                                   write_locked)
            put == IF fetched.found
                   THEN cache_wager_data(wager_cache, u, fetched.data,
                                         CacheDurationMinutes, now, write_locked)
                   ELSE [rows |-> wager_cache, ok |-> FALSE]
            have == hit.found \/ fetched.found
            w == IF hit.found THEN hit.monthly_wager
                 ELSE Get(fetched.data, "monthly_wager", 0)
            out == check_milestone_achievements(milestone_achievements,
                       milestone_definitions, u, current_month_year, w, 0, write_locked)
        IN  /\ daily_wager_history' = fetched.rows
            /\ wager_cache' = put.rows
            /\ milestone_achievements' = IF have THEN out.rows ELSE milestone_achievements
            /\ evaluated' = IF have /\ out.ok /\ w > evaluated[u]
                            THEN [evaluated EXCEPT ![u] = w] ELSE evaluated
            /\ ret' = [NoRet EXCEPT !.op = "wager_handler", !.username = u,
                                    !.telegram_id = r.telegram_id, !.key = u,
                                    !.cached = hit, !.data = fetched.data,
                                    !.stale = (~hit.found /\ \E c \in wager_cache :
                                                                c.username = u),
                                    !.fetched = fetched.found,
                                    !.locked = write_locked,
                                    !.raised = \/ Propagates(fetched.found /\ write_locked)
                                               \/ Propagates(have /\ ~out.ok),
                                    !.ok = have, !.wager = w,
                                    !.result = IF have THEN out.result ELSE <<>>]
            /\ UNCHANGED <<leaderboard_cache, gate, waiters, tasks>>
            /\ UNCHANGED <<users, milestone_definitions, bot_stats, request_count, sent, milestone_requests, request_seq,
                           clock, write_locked, buttons, now, today>>

\* the dict 'wagered' of a player in the affiliate API's listing
Wagered(player) ==
    [today |-> player.today, this_week |-> player.this_week,
     this_month |-> player.this_month, all_time |-> player.all_time]

\* !wager on Discord, for the row get_user(discord_id=...) returns: the cached dict, or
\* on a miss the dict 'wagered' of find_player_by_username, which is cached as it is;
\* then the tracker's evaluation, on a tracker of its own without a bot, with
\* wager_data.get('monthly', 0)
DiscordWagerCommand(Players) ==
    \E r \in users, player \in Players \cup {NoPlayer} :
        LET u == r.goated_username
            hit == get_cached_wager_data(wager_cache, u, now)
            found == ~hit.found /\ player.found /\ validate_username(u)
            wager_data == IF hit.found THEN hit
                          ELSE IF found THEN Wagered(player) ELSE <<>>
            put == IF found
                   THEN cache_wager_data(wager_cache, u, Wagered(player),
                                         CacheDurationMinutes, now, write_locked)
                   ELSE [rows |-> wager_cache, ok |-> FALSE]
            have == hit.found \/ found
            w == Get(wager_data, "monthly", 0)
        IN  \E out \in {check_and_notify_milestones(milestone_achievements,
                            milestone_definitions, u, current_month_year, w,
                            write_locked, FALSE)} :
            /\ wager_cache' = put.rows
            /\ milestone_achievements' = IF have THEN out.rows ELSE milestone_achievements
            /\ evaluated' = IF have /\ out.ok /\ w > evaluated[u]
                            THEN [evaluated EXCEPT ![u] = w] ELSE evaluated
            /\ ret' = [NoRet EXCEPT !.op = "wager_command", !.username = u,
                                    !.telegram_id = r.telegram_id, !.key = u,
                                    !.cached = hit,
                                    !.data = IF found THEN Wagered(player) ELSE <<>>,
                                    !.fetched = found,
                                    !.locked = write_locked,
                                    !.ok = have, !.wager = w,
                                    !.result = IF have THEN out.result ELSE <<>>]
            /\ UNCHANGED <<users, milestone_definitions, bot_stats, request_count, sent, milestone_requests,
                           request_seq, clock, write_locked, daily_wager_history,
                           buttons, now, today, leaderboard_cache, gate, waiters,
                           tasks>>

\* /leaderboard: the cached position of the user, or on a miss the position fetched
\* from the affiliate API and cached
LeaderboardCommand(Players, R) ==
    \E r \in users, player \in Players \cup {NoPlayer}, rank \in R :
        LET u == r.goated_username
            hit == get_cached_leaderboard_data(leaderboard_cache, u, now)
            fetched == IF hit THEN [found |-> FALSE, data |-> <<>>]
                       ELSE get_player_leaderboard_position(daily_wager_history, u,
                                                            player, rank, today)
            put == IF fetched.found
                   THEN cache_leaderboard_data(leaderboard_cache, u, fetched.data,
                                               CacheDurationMinutes, now, write_locked)
                   ELSE [rows |-> leaderboard_cache, ok |-> FALSE]
        IN  /\ leaderboard_cache' = put.rows
            /\ ret' = [NoRet EXCEPT !.op = "leaderboard_handler", !.username = u,
                                    !.telegram_id = r.telegram_id, !.key = u,
                                    !.data = fetched.data,
                                    !.fetched = fetched.found,
                                    !.ok = (hit \/ fetched.found)]
            /\ UNCHANGED <<gate, waiters, tasks>>
            /\ UNCHANGED <<users, milestone_definitions, bot_stats, request_count, sent, milestone_achievements,
                           milestone_requests, request_seq, clock, write_locked,
                           wager_cache, daily_wager_history, buttons, now, today,
                           evaluated>>

\* GoatedAPI.get_player_wager_stats(username) for a player the API knows
FetchStats(U, Players) ==
    \E u \in U, player \in Players :
        LET date == strftime(DateOfDay(today))
            old == {r \in daily_wager_history : r.username = u /\ r.date = date}
            out == get_player_wager_stats(daily_wager_history, u, player, today,
                                          write_locked)
        IN  /\ old # {} \/ Cardinality(daily_wager_history) < MaxLedgerRows
            /\ daily_wager_history' = out.rows
            /\ ret' = [NoRet EXCEPT
                          !.op = "get_player_wager_stats", !.username = u,
                          !.wager = player.today, !.data = out.data,
                          !.fetched = out.found,
                          !.locked = write_locked,
                          !.raised = Propagates(write_locked),
                          !.rolling = out.data.last_7_days_wager,
                          !.rolling_before =
                              calculate_rolling_7_day_wager(daily_wager_history, u, today),
                          !.replaced = SumDaily(old)]
            /\ UNCHANGED <<leaderboard_cache, gate, waiters, tasks>>
            /\ UNCHANGED <<users, milestone_definitions, bot_stats, request_count, sent, milestone_achievements,
                           milestone_requests, request_seq, clock, write_locked,
                           wager_cache, buttons, now, today, evaluated>>

\* calculate_rolling_7_day_wager(username), as get_player_leaderboard_stats calls it
RollingWager(U) ==
    \E u \in U :
        /\ ret' = [NoRet EXCEPT
                      !.op = "calculate_rolling_7_day_wager", !.username = u,
                      !.raised = Propagates(FALSE),
                      !.rolling =
                          calculate_rolling_7_day_wager(daily_wager_history, u, today)]
        /\ UNCHANGED <<leaderboard_cache, gate, waiters, tasks>>
        /\ UNCHANGED <<users, milestone_definitions, bot_stats, request_count, sent, milestone_achievements,
                       milestone_requests, request_seq, clock, write_locked, wager_cache,
                       daily_wager_history, buttons, now, today, evaluated>>

\* cleanup_old_daily_wager_data(days_to_keep)
Cleanup(Days) ==
    \E k \in Days :
        LET out == cleanup_old_daily_wager_data(daily_wager_history, k, today,
                                                write_locked)
        IN  /\ daily_wager_history' = out.rows
            /\ ret' = [NoRet EXCEPT
                          !.op = "cleanup_old_daily_wager_data", !.ok = out.ok,
                          !.days_to_keep = k,
                          !.deleted = Cardinality(daily_wager_history \ out.rows)]
            /\ UNCHANGED <<leaderboard_cache, gate, waiters, tasks>>
            /\ UNCHANGED <<users, milestone_definitions, bot_stats, request_count, sent, milestone_achievements,
                           milestone_requests, request_seq, clock, write_locked,
                           wager_cache, buttons, now, today, evaluated>>

\* days of wall-clock time pass; what is observed of a call is of a call of the day
NextDay(Steps) ==
    \E d \in Steps :
        /\ today + d <= RollingDays + MaxDay
        /\ today' = today + d
        /\ ret' = NoRet
        /\ UNCHANGED <<leaderboard_cache, gate, waiters, tasks>>
        /\ UNCHANGED <<users, milestone_definitions, bot_stats, request_count, sent, milestone_achievements,
                       milestone_requests, request_seq, clock, write_locked, wager_cache,
                       daily_wager_history, buttons, now, evaluated>>

\* seconds of wall-clock time pass
Tick(step, limit) ==
    /\ now + step <= limit
    /\ now' = now + step
    /\ UNCHANGED <<leaderboard_cache, gate, waiters, tasks>>
    /\ UNCHANGED <<users, milestone_definitions, bot_stats, request_count, sent, milestone_achievements,
                   milestone_requests, request_seq, clock, write_locked, wager_cache,
                   daily_wager_history, buttons, today, ret, evaluated>>

\* the wall clock passes into the next calendar month
NextMonth ==
    /\ clock < Len(MonthNames)
    /\ clock' = clock + 1
    /\ evaluated' = [u \in TypedNames |-> -1]
    /\ ret' = NoRet
    /\ UNCHANGED <<leaderboard_cache, gate, waiters, tasks>>
    /\ UNCHANGED <<wager_cache, daily_wager_history, buttons, now, today>>
    /\ UNCHANGED <<users, milestone_definitions, bot_stats, request_count, sent, milestone_achievements,
                   milestone_requests, request_seq, write_locked>>

\* the interpreter collects an abandoned connection: sqlite3 closes it, SQLite rolls
\* its transaction back and the write lock is free again
CollectGarbage ==
    /\ write_locked
    /\ write_locked' = FALSE
    /\ UNCHANGED <<leaderboard_cache, gate, waiters, tasks>>
    /\ UNCHANGED <<wager_cache, daily_wager_history, buttons, now, today>>
    /\ UNCHANGED <<users, milestone_definitions, bot_stats, request_count, sent, milestone_achievements,
                   milestone_requests, request_seq, clock, ret, evaluated>>

(***************************************************************************)
(* Steps of the tasks of the event loop. A task gives up control only at   *)
(* an await: when it queues for the lock and while the affiliate API has   *)
(* not answered. The critical sections hold no await; the evaluation is    *)
(* nevertheless taken in two steps, its SELECTs and its INSERTs, so that   *)
(* only the lock keeps other tasks out of it.                              *)
(***************************************************************************)
\* a chat sends a command and the event loop creates the task of its handler
StartCommand(t, Cmds, Tids) ==
    /\ tasks[t].pc = "idle"
    /\ \E cmd \in Cmds, tid \in Tids :
        /\ cmd = "request" => request_seq < MaxRequests
        /\ tasks' = [tasks EXCEPT ![t] = [IdleTask EXCEPT !.pc = "request", !.cmd = cmd,
                                                          !.todo = Program(cmd),
                                                          !.telegram_id = tid]]
    /\ UNCHANGED <<users, milestone_definitions, bot_stats, request_count, sent, milestone_achievements,
                   milestone_requests, request_seq, clock, write_locked, wager_cache,
                   daily_wager_history, buttons, now, today, leaderboard_cache, gate,
                   waiters, ret, evaluated>>

\* async with db_manager._lock, entry: asyncio.Lock.acquire takes the lock, or appends
\* a future to self._waiters and awaits it
Acquire(t) ==
    LET task == tasks[t]
        op == Head(task.todo)
        can == CanAcquire(gate, waiters)
        isCheck == op = "check_milestone_achievements"
        called(x) == /\ x # t /\ tasks[x].check = "called"
                     /\ tasks[x].username = task.username
        over == isCheck /\ \E x \in TaskIds : called(x)
    IN  /\ task.pc = "request"
        /\ gate' = IF can THEN t ELSE gate
        /\ waiters' = IF can THEN waiters ELSE Append(waiters, t)
        /\ tasks' = [x \in TaskIds |->
                        IF x = t
                        THEN [task EXCEPT !.pc = IF can THEN "inside" ELSE "waiting",
                                          !.waited = ~can,
                                          !.check = IF isCheck THEN "called" ELSE @,
                                          !.overlap = IF isCheck THEN over ELSE @]
                        ELSE IF over /\ called(x)
                        THEN [tasks[x] EXCEPT !.overlap = TRUE]
                        ELSE tasks[x]]
        /\ UNCHANGED <<users, milestone_definitions, bot_stats, request_count, sent, milestone_achievements,
                       milestone_requests, request_seq, clock, write_locked,
                       wager_cache, daily_wager_history, buttons, now, today,
                       leaderboard_cache, ret, evaluated>>

\* asyncio.Lock.acquire after the await: the future has its result, the task removes it
\* from self._waiters and sets self._locked
Resume(t) ==
    /\ tasks[t].pc = "waiting" /\ tasks[t].woken
    /\ waiters # <<>> /\ Head(waiters) = t
    /\ gate' = t
    /\ waiters' = Tail(waiters)
    /\ tasks' = [tasks EXCEPT ![t].pc = "inside", ![t].woken = FALSE]
    /\ UNCHANGED <<users, milestone_definitions, bot_stats, request_count, sent, milestone_achievements,
                   milestone_requests, request_seq, clock, write_locked, wager_cache,
                   daily_wager_history, buttons, now, today, leaderboard_cache, ret,
                   evaluated>>

\* check_milestone_achievements up to achieved_milestones = {...}
ReadAchieved(t) ==
    /\ tasks[t].pc = "inside" /\ ~tasks[t].read
    /\ Head(tasks[t].todo) = "check_milestone_achievements"
    /\ tasks' = [tasks EXCEPT
                    ![t].read = TRUE,
                    ![t].snapshot = AchievedMilestones(milestone_achievements,
                                                       tasks[t].username,
                                                       current_month_year)]
    /\ UNCHANGED <<users, milestone_definitions, bot_stats, request_count, sent, milestone_achievements,
                   milestone_requests, request_seq, clock, write_locked, wager_cache,
                   daily_wager_history, buttons, now, today, leaderboard_cache, gate,
                   waiters, ret, evaluated>>

\* the tables as they are
Tables ==
    [users |-> users, achievements |-> milestone_achievements,
     requests |-> milestone_requests, seq |-> request_seq, wager_cache |-> wager_cache,
     leaderboard_cache |-> leaderboard_cache, ledger |-> daily_wager_history,
     locked |-> write_locked]

\* the statistics get_player_wager_stats returns for the player and the rolling sum
StatsOf(task) ==
    [username |-> CanonicalName(task.username),
     daily_wager |-> task.player.today,
     weekly_wager |-> task.player.this_week,
     last_7_days_wager |-> task.rolling,
     monthly_wager |-> task.player.this_month,
     total_wager |-> task.player.all_time]

\* the body of operation op run by the task, from its first statement (for the
\* evaluation: from its first INSERT) to its exit: the tables after it, the task with
\* what the handler keeps of the result and the awaits that remain, and the way the
\* body ended. fault: a storage error strikes the body and its handler returns the
\* failure value.
Effect(task, op, fault) ==
    LET u == task.username
        tid == task.telegram_id
        locked == fault \/ write_locked
        next == [task EXCEPT !.todo = Tail(@)]
        stop == [task EXCEPT !.todo = <<>>]
        exitOf(raised) == IF raised THEN "exception" ELSE "return"
    IN  CASE op = "get_user" ->
               LET found == {r \in users : r.telegram_id = tid}
               IN  [tables |-> Tables,
                    task |-> IF fault \/ found = {} THEN stop
                             ELSE [next EXCEPT !.username =
                                      (CHOOSE r \in found : TRUE).goated_username],
                    exit |-> exitOf(fault)]
          [] op = "get_cached_wager_data" ->
               LET hit == IF fault THEN NoCached
                          ELSE get_cached_wager_data(wager_cache, u, now)
               IN  [tables |-> Tables,
                    task |-> IF hit.found
                             THEN [task EXCEPT !.wager = hit.monthly_wager,
                                               !.todo = AfterStats(task.cmd)]
                             ELSE [task EXCEPT !.todo = FetchStatsOps
                                                        \o AfterStats(task.cmd)],
                    exit |-> exitOf(fault)]
          [] op = "record_daily_wager" ->
               LET rec == record_daily_wager(daily_wager_history, CanonicalName(u),
                              task.player.today, task.player.all_time,
                              strftime(DateOfDay(today)), locked)
               IN  [tables |-> [Tables EXCEPT !.ledger = rec.rows],
                    task |-> next, exit |-> exitOf(locked)]
          [] op = "calculate_rolling_7_day_wager" ->
               [tables |-> Tables,
                task |-> [next EXCEPT !.rolling =
                             IF fault THEN 0
                             ELSE calculate_rolling_7_day_wager(daily_wager_history,
                                      CanonicalName(u), today)],
                exit |-> exitOf(fault)]
          [] op = "cache_wager_data" ->
               LET put == cache_wager_data(wager_cache, u, StatsOf(task),
                                           CacheDurationMinutes, now, locked)
               IN  [tables |-> [Tables EXCEPT !.wager_cache = put.rows],
                    task |-> [next EXCEPT !.wager = task.player.this_month],
                    exit |-> exitOf(locked)]
          [] op = "check_milestone_achievements" ->
               LET out == IF fault
                          THEN [rows |-> milestone_achievements, result |-> <<>>,
                                ok |-> FALSE]
                          ELSE check_milestone_inserts(milestone_achievements,
                                   milestone_definitions, u, current_month_year,
                                   task.wager, task.snapshot)
               IN  [tables |-> [Tables EXCEPT !.achievements = out.rows,
                                              !.locked = write_locked
                                                         \/ (~fault /\ ~out.ok)],
                    task |-> [next EXCEPT !.read = FALSE,
                                          !.check = IF out.ok THEN "ok" ELSE "failed",
                                          !.result = out.result],
                    exit |-> exitOf(~out.ok)]
          [] op = "create_milestone_request" ->
               LET a == CHOOSE x \in RequestAmounts : TRUE
                   existed == RequestExists(milestone_requests, u, a, current_month_year)
                   out == create_milestone_request(milestone_requests, request_seq, u,
                              tid, a, LadderBonus, current_month_year, now, locked)
               IN  [tables |-> [Tables EXCEPT !.requests = out.rows, !.seq = out.seq],
                    task |-> next,
                    exit |-> IF ~fault /\ existed THEN "early" ELSE exitOf(locked)]
          [] op = "unregister_user" ->
               LET out == unregister_user(users, milestone_achievements,
                                          milestone_requests, tid, locked)
                   known == \E r \in users : r.telegram_id = tid
               IN  [tables |->
                        [Tables EXCEPT
                            !.users = out.users,
                            !.achievements = out.achievements,
                            !.requests = out.requests,
                            !.wager_cache =
                                IF out.ok THEN DeleteWagerCacheOf(@, out.username)
                                ELSE @,
                            !.leaderboard_cache =
                                IF out.ok THEN DeleteLeaderboardCacheOf(@, out.username)
                                ELSE @],
                    task |-> next,
                    exit |-> IF ~fault /\ ~known THEN "early" ELSE exitOf(locked)]
          [] op = "get_cached_leaderboard_data" ->
               LET hit == ~fault /\ get_cached_leaderboard_data(leaderboard_cache, u, now)
               IN  [tables |-> Tables,
                    task |-> IF hit THEN stop
                             ELSE [task EXCEPT !.todo = FetchPositionOps],
                    exit |-> exitOf(fault)]
          [] op = "cache_leaderboard_data" ->
               LET pos == get_player_leaderboard_position(daily_wager_history, u,
                              task.player, CHOOSE r \in Ranks : TRUE, today)
                   data == [pos.data EXCEPT !.player_last_7_days = task.rolling]
                   put == cache_leaderboard_data(leaderboard_cache, u, data,
                                                 CacheDurationMinutes, now, locked)
               IN  [tables |-> [Tables EXCEPT !.leaderboard_cache = put.rows],
                    task |-> next, exit |-> exitOf(locked)]
          [] OTHER ->
               \* update_user (the columns last_wager_check, last_leaderboard_check),
               \* get_user_achievements, get_next_milestone,
               \* get_user_milestone_requests: no table of the model changes
               [tables |-> Tables, task |-> next,
                exit |-> exitOf(IF op = "update_user" THEN locked ELSE fault)]

\* the task after an operation: a handler that has returned keeps only the record of
\* its evaluation
Settled(task, exit) ==
    IF task.todo # <<>> THEN [task EXCEPT !.pc = PcOf(task.todo), !.exit = exit]
    ELSE [IdleTask EXCEPT !.exit = exit, !.waited = task.waited,
                          !.username = task.username, !.wager = task.wager,
                          !.check = task.check, !.overlap = task.overlap,
                          !.snapshot = task.snapshot, !.result = task.result]

\* the critical section of the operation the task is in, to its end, and the exit of
\* async with: release() and _wake_up_first(), which gives the future of the first
\* waiter its result
Run(t, F) ==
    /\ tasks[t].pc = "inside"
    /\ Head(tasks[t].todo) = "check_milestone_achievements" => tasks[t].read
    /\ \E fault \in F : \E e \in {Effect(tasks[t], Head(tasks[t].todo), fault)} :
        LET g == GateAfterExit(gate, e.exit, e.task.todo)
            wake == g = 0 /\ waiters # <<>>
        IN  /\ users' = e.tables.users
            /\ milestone_achievements' = e.tables.achievements
            /\ milestone_requests' = e.tables.requests
            /\ request_seq' = e.tables.seq
            /\ wager_cache' = e.tables.wager_cache
            /\ leaderboard_cache' = e.tables.leaderboard_cache
            /\ daily_wager_history' = e.tables.ledger
            /\ write_locked' = e.tables.locked
            /\ gate' = g
            /\ tasks' = [x \in TaskIds |->
                            IF x = t THEN Settled(e.task, e.exit)
                            ELSE IF wake /\ x = Head(waiters)
                            THEN [tasks[x] EXCEPT !.woken = TRUE]
                            ELSE tasks[x]]
    /\ UNCHANGED <<milestone_definitions, bot_stats, request_count, sent, clock, buttons, now, today, waiters, ret,
                   evaluated>>

\* the affiliate API answers the request the task awaits: a player or none
\* (find_player_by_username), a listing or an error (_make_request)
Fetch(t, Players) ==
    /\ tasks[t].pc = "fetching"
    /\ \E player \in Players \cup {NoPlayer} :
        LET task == tasks[t]
            found == player.found /\ validate_username(task.username)
            after == IF ~found THEN [task EXCEPT !.todo = <<>>]
                     ELSE IF Head(task.todo) = "find_player_by_username"
                     THEN [task EXCEPT !.todo = Tail(@), !.player = player]
                     ELSE [task EXCEPT !.todo = Tail(@)]
        IN  tasks' = [tasks EXCEPT ![t] = Settled(after, task.exit)]
    /\ UNCHANGED <<users, milestone_definitions, bot_stats, request_count, sent, milestone_achievements,
                   milestone_requests, request_seq, clock, write_locked, wager_cache,
                   daily_wager_history, buttons, now, today, leaderboard_cache, gate,
                   waiters, ret, evaluated>>

\* a handler logs its command, when it begins or when it has failed:
\* log_command_usage(user.id, command, success, error_message). The call waits for
\* nothing the event loop holds, so it runs whatever the tasks and the lock are at.
LogCommandUsage(Tids, Cmds) ==
    \E tid \in Tids, command \in Cmds, success \in BOOLEAN :
        LET out == log_command_usage(bot_stats, tid, command, success, write_locked)
        IN  /\ Len(bot_stats) < MaxStats
            /\ bot_stats' = out.rows
            /\ ret' = [NoRet EXCEPT !.op = "log_command_usage", !.telegram_id = tid,
                                    !.ok = out.ok, !.locked = write_locked,
                                    !.holder = gate,
                                    !.raised = Propagates(write_locked)]
            /\ UNCHANGED <<users, milestone_definitions, milestone_achievements,
                           milestone_requests, request_seq, clock, write_locked,
                           wager_cache, daily_wager_history, buttons, now, today,
                           leaderboard_cache, gate, waiters, tasks, evaluated,
                           request_count, sent>>

\* no command is running
Quiet == gate = 0 /\ \A t \in TaskIds : tasks[t].pc = "idle"

(***************************************************************************)
(* Spec: the milestone engine (evaluation, progress, registration, the     *)
(* calendar) over the full range of wagers.                                *)
(***************************************************************************)
Next ==
    \/ Register(OwnAccounts)
    \/ Unregister(TelegramIds)
    \/ CheckMilestones(Wagers, FirstStatement)
    \/ NextMilestone(ProgressWagers)
    \/ CollectGarbage

Spec == Init /\ [][Next]_vars

(***************************************************************************)
(* SpecCalendar: evaluation across a change of calendar month.             *)
(***************************************************************************)
NextCalendar ==
    \/ Register(OwnAccounts)
    \/ Unregister(TelegramIds)
    \/ CheckMilestones(FewWagers, AnyStatement)
    \/ NextMonth
    \/ CollectGarbage

SpecCalendar == Init /\ [][NextCalendar]_vars

(***************************************************************************)
(* SpecAll: every operation of the storage layer, on a narrow range of     *)
(* wagers.                                                                 *)
(***************************************************************************)
NextAll ==
    \/ Register(OwnAccounts)
    \/ Unregister(TelegramIds)
    \/ CheckMilestones(OneWager, FirstStatement)
    \/ NextMilestone(OneWager)
    \/ MarkNotified
    \/ CreateRequest(RequestAmounts)
    \/ ResolveRequest
    \/ CollectGarbage

SpecAll == Init /\ [][NextAll]_vars

(***************************************************************************)
(* SpecRequests: the reward-request workflow as the chats drive it, from   *)
(* achievement over request button to the admins' decisions.               *)
(***************************************************************************)
NextRequests ==
    \/ Register(OwnAccounts)
    \/ Unregister(TelegramIds)
    \/ CheckMilestones(LowWagers, NoStatement)
    \/ ShowProgress
    \/ PressButton
    \/ ResolveRequest
    \/ ListPending
    \/ Tick(1, MaxNow)

SpecRequests == Init /\ [][NextRequests]_vars

\* the wager cache: registrations, /wager and the clock in half cache lifetimes
NextCache ==
    \/ Register(OwnAccounts)
    \/ Unregister(TelegramIds)
    \/ WagerCommand(SmallPlayers)
    \/ Tick(HalfLife, MaxWaits * HalfLife)

SpecCache == Init /\ [][NextCache]_vars

\* the daily wager ledger: statistics requests and the calendar
NextLedger ==
    \/ FetchStats(Usernames, DailyPlayers)
    \/ RollingWager(Usernames)
    \/ NextDay(DaySteps)

SpecLedger == Init /\ [][NextLedger]_vars

\* the ledger and its cleanup
NextPrune ==
    \/ FetchStats(Usernames, OnePlayer)
    \/ Cleanup(RetentionDays)
    \/ NextDay(DaySteps)

SpecPrune == Init /\ [][NextPrune]_vars

\* the account of a chat: everything stored under the user's name, and the
\* unregistration that clears it
NextAccount ==
    \/ Register(SharedAccounts)
    \/ Unregister(TelegramIds)
    \/ WagerCommand(MilestonePlayer)
    \/ CreateRequest(LowWagers)
    \/ LeaderboardCommand(MilestonePlayer, Ranks)

SpecAccount == Init /\ [][NextAccount]_vars

\* registrations under names typed in either casing, and the caches of the chats
NextCase ==
    \/ Register(CaseAccounts)
    \/ Unregister(TelegramIds)
    \/ WagerCommand(OnePlayer)
    \/ LeaderboardCommand(OnePlayer, Ranks)
    \/ CollectGarbage

SpecCase == Init /\ [][NextCase]_vars

\* evaluation against the tables of definitions a deployment may hold
NextDefinitions ==
    \/ Register(OwnAccounts)
    \/ CheckMilestones(Wagers, NoStatement)
    \/ CollectGarbage

SpecDefinitions == InitDefinitions /\ [][NextDefinitions]_vars

\* evaluation against tables of definitions with cleared flags
NextFlags ==
    \/ Register(OwnAccounts)
    \/ CheckMilestones(Wagers, NoStatement)
    \/ CollectGarbage

SpecFlags == InitFlags /\ [][NextFlags]_vars

\* the core operations with storage errors: evaluations aborted at their first
\* statement leave the database write-locked for the operations that follow
NextErrors ==
    \/ Register(OneAccount)
    \/ CheckMilestones(LowWagers, FirstStatement)
    \/ NextMilestone(LowWagers)
    \/ CreateRequest(LowWagers)
    \/ ResolveRequest
    \/ WagerCommand(OnePlayer)
    \/ RollingWager(Usernames)
    \/ CollectGarbage

SpecErrors == Init /\ [][NextErrors]_vars

\* a player whose monthly wager crosses one or two of the default definitions
GatePlayers ==
    {[found |-> TRUE, today |-> 100, this_week |-> 300, this_month |-> m, all_time |-> 900] :
        m \in {10000, 25000}}

\* whether a storage error strikes an operation
Faults == {FALSE, TRUE}

\* no storage error
NoFault == {FALSE}

\* the commands that end in an operation with an early return, as tasks of one
\* event loop, with storage errors; registration happens while no command runs
NextGate ==
    \/ (Quiet /\ Register(OneAccount))
    \/ \E t \in TaskIds : StartCommand(t, {"request", "unregister"}, {101})
    \/ \E t \in TaskIds : Acquire(t)
    \/ \E t \in TaskIds : Resume(t)
    \/ \E t \in TaskIds : Run(t, Faults)

SpecGate == Init /\ [][NextGate]_vars

\* the event loop runs every task that is ready: a task about to call acquire()
\* calls it, a task whose future has its result resumes, and a task inside a critical
\* section, which holds no await, runs to the end of it
FairSpecGate ==
    SpecGate /\ \A t \in TaskIds :
                   WF_vars(Acquire(t)) /\ WF_vars(Resume(t)) /\ WF_vars(Run(t, Faults))

\* the commands that fetch from the affiliate API, as tasks of one event loop
NextFetch ==
    \/ (Quiet /\ Register(OneAccount))
    \/ \E t \in TaskIds : StartCommand(t, {"wager", "milestones", "leaderboard"}, {101})
    \/ \E t \in TaskIds : Acquire(t)
    \/ \E t \in TaskIds : Resume(t)
    \/ \E t \in TaskIds : ReadAchieved(t)
    \/ \E t \in TaskIds : Run(t, NoFault)
    \/ \E t \in TaskIds : Fetch(t, OnePlayer)

SpecFetch == Init /\ [][NextFetch]_vars

\* /wager commands of one chat as tasks of one event loop, the affiliate API reporting
\* a monthly wager that grows between two requests
NextEvaluate ==
    \/ (Quiet /\ Register(OneAccount))
    \/ \E t \in TaskIds : StartCommand(t, {"wager"}, {101})
    \/ \E t \in TaskIds : Acquire(t)
    \/ \E t \in TaskIds : Resume(t)
    \/ \E t \in TaskIds : ReadAchieved(t)
    \/ \E t \in TaskIds : Run(t, NoFault)
    \/ \E t \in TaskIds : Fetch(t, GatePlayers)

SpecEvaluate == Init /\ [][NextEvaluate]_vars

\* commands that log their use, next to registrations that fail and leave the
\* database write-locked
NextLog ==
    \/ Quiet /\ Register(SharedAccounts)
    \/ \E t \in TaskIds : StartCommand(t, {"request"}, {101})
    \/ \E t \in TaskIds : Acquire(t)
    \/ \E t \in TaskIds : Resume(t)
    \/ \E t \in TaskIds : Run(t, NoFault)
    \/ LogCommandUsage({101}, {"wager"})
    \/ CollectGarbage

SpecLog == Init /\ [][NextLog]_vars

\* whether a bot instance is attached to the tracker
Bots == {FALSE, TRUE}

\* the tracker's evaluation as /wager calls it, with and without a bot
NextNotify ==
    \/ Register(OwnAccounts)
    \/ CheckAndNotify(Wagers, Bots)

SpecNotify == Init /\ [][NextNotify]_vars

\* the wager command of either platform, with cache entries that live on or expire
NextDiscord ==
    \/ Register(OneAccount)
    \/ WagerCommand(GatePlayers)
    \/ DiscordWagerCommand(GatePlayers)
    \/ Tick(HalfLife, MaxWaits * HalfLife)

SpecDiscord == Init /\ [][NextDiscord]_vars

\* what the affiliate API reports at the time of the wall clock
ReportedPlayer ==
    {[found |-> TRUE, today |-> 100, this_week |-> 300,
      this_month |-> MonthlyFigures[clock], all_time |-> 900]}

\* /wager around the change of the month, with cache entries that live on or expire
NextStale ==
    \/ Register(OwnAccounts)
    \/ WagerCommand(ReportedPlayer)
    \/ NextMonth
    \/ Tick(HalfLife, MaxWaits * HalfLife)

SpecStale == Init /\ [][NextStale]_vars

\* /wager while the affiliate API answers, fails or times out, and cache entries
\* expire
NextUnavailable ==
    \/ Register(OwnAccounts)
    \/ WagerCommand(Answers(GatePlayers))
    \/ Tick(HalfLife, MaxWaits * HalfLife)

SpecUnavailable == Init /\ [][NextUnavailable]_vars


(***************************************************************************)
(* Properties.                                                             *)
(***************************************************************************)
IsCheck(r) == r.op = "check_milestone_achievements"
StaticAmounts == {d.milestone_amount : d \in milestone_definitions}

\* the step is the collection of an abandoned connection, not a call
Collected == write_locked /\ ~write_locked'

\* the step is an evaluation that follows an evaluation of the same user and month,
\* with no other call between them, and with a wager at least as large
NextEvaluation ==
    /\ ~Collected
    /\ IsCheck(ret) /\ IsCheck(ret')
    /\ ret'.username = ret.username /\ ret'.month = ret.month
    /\ ret.wager <= ret'.wager

\* C1 (Spec): when the first evaluation of a user in a month and the evaluation that
\* follows it both succeed, with wagers w1 <= w2, the two returned lists together hold
\* exactly the thresholds crossed by w2 (active definitions <= w2 and ladder values
\* <= w2), and no threshold is in both lists or twice in one.
C1_TwoCallsReturnCrossed ==
    [][ (NextEvaluation /\ ret.ok /\ ret.before = {} /\ ret'.ok)
          => /\ Amounts(ret.result) \cup Amounts(ret'.result)
                    = Crossed(milestone_definitions, ret'.wager)
             /\ Amounts(ret.result) \cap Amounts(ret'.result) = {}
             /\ Cardinality(Amounts(ret.result)) = Len(ret.result)
             /\ Cardinality(Amounts(ret'.result)) = Len(ret'.result) ]_vars

\* C1 witness: such a pair of calls in which each call returned something.
C1_Witness ==
    /\ IsCheck(ret) /\ ret.ok /\ ret.prev = "ok" /\ ret.prev_fresh /\ ret.prev_le
    /\ ret.before # {}
    /\ ret.result # <<>>

\* C3 (Spec): an evaluation with a wager not above one already evaluated for the user
\* this month returns the empty list and leaves milestone_achievements as it was; a
\* successful evaluation with a higher wager returns exactly the thresholds crossed
\* by the new wager and not by the highest wager evaluated before.
C3_IdempotentIncremental ==
    [][ (~Collected /\ IsCheck(ret')) =>
          LET u == ret'.username
              w == ret'.wager
          IN  /\ w <= evaluated[u] =>
                    /\ ret'.result = <<>>
                    /\ milestone_achievements' = milestone_achievements
              /\ (w > evaluated[u] /\ ret'.ok) =>
                    Amounts(ret'.result) =
                        Crossed(milestone_definitions, w)
                            \ Crossed(milestone_definitions, evaluated[u]) ]_vars

\* C3 witness: a successful repeat with a lower wager than the call before, which
\* had credited thresholds; it returned nothing.
C3_Witness ==
    /\ IsCheck(ret) /\ ret.ok /\ ret.prev = "ok"
    /\ ~ret.prev_le
    /\ ret.before # {}
    /\ ret.result = <<>>

\* C4 (Spec): after a successful evaluation with wager w >= 100000 every ladder value
\* 100000 + 50000*k <= w is credited for the month; the call credits what it returns;
\* the ladder values it returns are exactly those it found uncredited, none above w,
\* each with bonus 50;
\* and when no higher wager was evaluated before in the month, the ladder values
\* credited for the month are exactly those <= w.
C4_LadderCredited ==
    (IsCheck(ret) /\ ret.ok /\ ret.wager >= LadderBase)
    => LET held == Held(milestone_achievements, ret.username, ret.month)
           rows == {r \in DOMAIN milestone_achievements :
                       /\ r.username = ret.username
                       /\ r.month_year = ret.month
                       /\ r.milestone_amount \notin StaticAmounts}
       IN  /\ Ladder(ret.wager) \subseteq held
           /\ held = ret.before \cup Amounts(ret.result)
           /\ Amounts(ret.result) \ StaticAmounts = Ladder(ret.wager) \ ret.before
           /\ \A i \in DOMAIN ret.result :
                 ret.result[i].milestone_amount \notin StaticAmounts
                     => ret.result[i].bonus_amount = LadderBonus
           /\ \A r \in rows : r.bonus_amount = LadderBonus
           /\ evaluated[ret.username] = ret.wager
                 => held \ StaticAmounts = Ladder(ret.wager)

\* C4 witness: a user who held exactly the four static thresholds is evaluated 30000
\* above the top ladder value and the call returns the ladder up to that value.
C4_Witness ==
    /\ IsCheck(ret) /\ ret.ok
    /\ ret.wager = TopWager + 30000
    /\ ret.before = StaticAmounts
    /\ Amounts(ret.result) = Ladder(TopWager)
    /\ TopWager + LadderStep \notin Held(milestone_achievements, ret.username, ret.month)

\* C7 (SpecCalendar): an evaluation that ends in a storage error returns the empty list and
\* leaves milestone_achievements exactly as it was before the call.
C7_NoPartialCredit ==
    [][ (~Collected /\ IsCheck(ret') /\ ~ret'.ok)
          => /\ ret'.result = <<>>
             /\ milestone_achievements' = milestone_achievements ]_vars

\* C7 witness: an evaluation of a user who held nothing, aborted at its third INSERT.
C7_Witness ==
    IsCheck(ret) /\ ~ret.ok /\ ret.before = {} /\ ret.applied = 2

\* C8 (Spec): a successful evaluation that follows an aborted one of the same user
\* and month, with a wager at least as large, leaves every threshold crossed by its
\* wager credited, and returns every threshold the user did not hold before the
\* aborted call, among them all that the aborted call should have credited.
C8_CatchUpAfterAbort ==
    [][ (NextEvaluation /\ ~ret.ok /\ ret'.ok)
          => /\ Crossed(milestone_definitions, ret'.wager)
                    \subseteq Held(milestone_achievements', ret'.username, ret'.month)
             /\ Amounts(ret'.result)
                    = Crossed(milestone_definitions, ret'.wager) \ ret.before
             /\ Crossed(milestone_definitions, ret.wager) \ ret.before
                    \subseteq Amounts(ret'.result) ]_vars

\* C8 witness: such a call has returned thresholds, and the one before it was aborted.
C8_Witness ==
    /\ IsCheck(ret) /\ ret.ok /\ ret.prev = "aborted" /\ ret.prev_le
    /\ ret.result # <<>>

\* the smallest threshold above w that is not in held, among the active definitions
\* and, for w >= 100000, the ladder
SmallestUnachieved(defs, held, w) ==
    LET static == {d.milestone_amount : d \in {x \in defs : x.is_active}}
        top == Max(held \cup {w, LadderBase}) + LadderStep
        ladder == IF w >= LadderBase THEN Ladder(top) ELSE {}
        cand == {a \in static \cup ladder : a > w /\ a \notin held}
    IN  IF cand = {} THEN 0 ELSE Min(cand)

\* C9 (Spec): get_next_milestone returns the smallest threshold above w that the
\* user has not achieved this month, from the active definitions and, for
\* w >= 100000, the ladder, whatever the user has achieved.
C9_NextIsSmallestUnachieved ==
    (ret.op = "get_next_milestone")
    => LET want == SmallestUnachieved(milestone_definitions, ret.before, ret.wager)
       IN  /\ ret.next.found = (want # 0)
           /\ ret.next.found => ret.next.milestone_amount = want

\* C6 (SpecCalendar): a successful evaluation returns and credits exactly the crossed
\* thresholds the user does not hold for the current month, whatever the user holds
\* for other months, and no (user, threshold, month) is ever stored twice.
C6_CreditedOncePerMonth ==
    /\ (IsCheck(ret) /\ ret.ok)
          => /\ Amounts(ret.result) = Crossed(milestone_definitions, ret.wager) \ ret.before
             /\ Crossed(milestone_definitions, ret.wager)
                    \subseteq Held(milestone_achievements, ret.username, ret.month)
    /\ \A r \in DOMAIN milestone_achievements :
          Copies(milestone_achievements, r.username, r.milestone_amount, r.month_year) = 1

\* C6 witness: in the second month an evaluation returns a threshold that the user
\* holds for the first month.
C6_Witness ==
    /\ clock = 2
    /\ IsCheck(ret) /\ ret.ok
    /\ Amounts(ret.result) \cap Held(milestone_achievements, ret.username, MonthNames[1]) # {}

\* C2 (SpecAll): no (user, threshold, month) has more than one row in
\* milestone_achievements.
C2_AchievementsUnique ==
    \A r \in DOMAIN milestone_achievements :
        Copies(milestone_achievements, r.username, r.milestone_amount, r.month_year) <= 1

\* C2 witness: a user who holds thresholds for the month is evaluated again with a
\* wager that crosses them, while a request of the user is stored.
C2_Witness ==
    /\ IsCheck(ret) /\ ret.ok
    /\ ret.before # {}
    /\ ret.before \subseteq Crossed(milestone_definitions, ret.wager)
    /\ \E i \in DOMAIN milestone_requests : milestone_requests[i].username = ret.username

\* thresholds and months user u holds
KeysOf(rows, u) ==
    {<<r.milestone_amount, r.month_year>> : r \in {x \in DOMAIN rows : x.username = u}}

\* C5 (SpecAll): every step keeps every (threshold, month) a user holds, except a
\* successful unregister_user of that user.
C5_AchievementsOnlyGrow ==
    [][ \A u \in Usernames :
          \/ KeysOf(milestone_achievements, u) \subseteq KeysOf(milestone_achievements', u)
          \/ (ret'.op = "unregister_user" /\ ret'.ok /\ ret'.username = u) ]_vars

\* C5 witness: mark_achievements_notified has run and the user still holds the rows,
\* now notified.
C5_Witness ==
    /\ ret.op = "mark_achievements_notified"
    /\ \E r \in DOMAIN milestone_achievements : r.username = ret.username /\ r.notified

\* C10 (SpecAll): no (user, threshold, month) has two request rows; a create for a key
\* that has no request succeeds when the store takes the write, a create for a key
\* that has one reports failure, and after either exactly one request row has the key.
C10_OneRequestPerKey ==
    /\ \A i, j \in DOMAIN milestone_requests :
          (/\ milestone_requests[i].username = milestone_requests[j].username
           /\ milestone_requests[i].milestone_amount = milestone_requests[j].milestone_amount
           /\ milestone_requests[i].month_year = milestone_requests[j].month_year)
              => i = j
    /\ ret.op = "create_milestone_request"
          => /\ ret.existed => ~ret.ok
             /\ (~ret.existed /\ ~ret.locked) => ret.ok
             /\ (ret.existed \/ ret.ok)
                    => Cardinality(RequestsWithKey(milestone_requests, ret.username,
                                                   ret.amount, ret.month)) = 1

\* C10 witness: a create for a key that already has a request has reported failure.
C10_Witness ==
    /\ ret.op = "create_milestone_request"
    /\ ~ret.ok
    /\ ret.existed
    /\ Len(milestone_requests) = 1

\* the step is a call of an operation: neither a clock nor the collector moves
IsCall == ~Collected /\ now' = now /\ clock' = clock /\ today' = today

\* the request with the given id, as a set of at most one row
RequestById(reqs, id) == {reqs[i] : i \in {j \in DOMAIN reqs : reqs[j].id = id}}

\* C11 (SpecRequests): a create_milestone_request for a (user, threshold, month) that
\* has a request, whatever its status, reports failure and leaves milestone_requests
\* exactly as it was.
C11_NoSecondRequest ==
    [][ (IsCall /\ ret'.op = "create_milestone_request"
                /\ RequestsWithKey(milestone_requests, ret'.username, ret'.amount,
                                   ret'.month) # {})
          => /\ ~ret'.ok
             /\ milestone_requests' = milestone_requests ]_vars

\* C11 witness: a create has reported failure for a key whose request is denied.
C11_Witness ==
    /\ ret.op = "create_milestone_request" /\ ~ret.ok
    /\ \E i \in RequestsWithKey(milestone_requests, ret.username, ret.amount, ret.month) :
          milestone_requests[i].status = "denied"

\* C12 (SpecRequests): update_milestone_request_status on a request that is not
\* pending returns failure and leaves the request as it was.
C12_ResolveOnlyPending ==
    [][ (IsCall /\ ret'.op = "update_milestone_request_status")
          => \A q \in RequestById(milestone_requests, ret'.request_id) :
                q.status # "pending"
                    => /\ ~ret'.ok
                       /\ q \in RequestById(milestone_requests', ret'.request_id) ]_vars

\* C13 (SpecRequests): a row that create_milestone_request adds has status pending,
\* no deciding admin and no decision time; and a pending request stays pending in
\* every step but a successful update_milestone_request_status of its id.
C13_CreatedPending ==
    [][ /\ \A i \in DOMAIN milestone_requests' :
              LET q == milestone_requests'[i]
              IN  RequestById(milestone_requests, q.id) = {}
                      => /\ ret'.op = "create_milestone_request" /\ ret'.ok
                         /\ q.status = "pending"
                         /\ q.processed_by = 0
                         /\ q.processed_at = NoTime
        /\ \A i \in DOMAIN milestone_requests :
              LET q == milestone_requests[i]
              IN  \A x \in RequestById(milestone_requests', q.id) :
                     (q.status = "pending" /\ x.status # "pending")
                        => /\ ret'.op = "update_milestone_request_status"
                           /\ ret'.ok
                           /\ ret'.request_id = q.id ]_vars

\* C13 witness: a request created a second ago is still pending, undecided, after the
\* other request has been decided.
C13_Witness ==
    \E i, j \in DOMAIN milestone_requests :
        /\ milestone_requests[i].status = "pending"
        /\ milestone_requests[i].processed_by = 0
        /\ milestone_requests[i].processed_at = NoTime
        /\ milestone_requests[i].requested_at < now
        /\ milestone_requests[j].status # "pending"

\* C14 (SpecRequests): update_milestone_request_status with an id no request has
\* returns failure and leaves milestone_requests as it was; with the id of a request
\* it leaves every other request as it was, and of that request it changes nothing
\* but status, deciding admin, decision time and notes.
C14_ResolveFrame ==
    [][ (IsCall /\ ret'.op = "update_milestone_request_status")
          => /\ RequestById(milestone_requests, ret'.request_id) = {}
                   => ~ret'.ok /\ milestone_requests' = milestone_requests
             /\ Len(milestone_requests') = Len(milestone_requests)
             /\ \A i \in DOMAIN milestone_requests :
                   LET q == milestone_requests[i]
                       x == milestone_requests'[i]
                   IN  IF q.id # ret'.request_id THEN x = q
                       ELSE x = [q EXCEPT !.status = x.status,
                                          !.processed_by = x.processed_by,
                                          !.processed_at = x.processed_at,
                                          !.admin_notes = x.admin_notes] ]_vars

\* C14 witness: one of two requests has been decided and the other is untouched.
C14_Witness ==
    /\ ret.op = "update_milestone_request_status" /\ ret.ok
    /\ Len(milestone_requests) = 2
    /\ \E i, j \in DOMAIN milestone_requests :
          /\ milestone_requests[i].id = ret.request_id
          /\ milestone_requests[i].status = ret.status
          /\ milestone_requests[j].id # ret.request_id
          /\ milestone_requests[j].status = "pending"

\* C15 (SpecRequests): every row of milestone_requests has a row of
\* milestone_achievements with the same (user, threshold, month).
C15_RequestHasAchievement ==
    \A i \in DOMAIN milestone_requests :
        Copies(milestone_achievements, milestone_requests[i].username,
               milestone_requests[i].milestone_amount,
               milestone_requests[i].month_year) > 0

\* C16 (SpecRequests): the list get_pending_milestone_requests returns holds exactly
\* the requests whose status is pending, each once, the older before the newer.
C16_PendingOldestFirst ==
    (ret.op = "get_pending_milestone_requests")
    => /\ {ret.pending[i] : i \in DOMAIN ret.pending}
              = {milestone_requests[i] : i \in {j \in DOMAIN milestone_requests :
                                                  milestone_requests[j].status = "pending"}}
       /\ \A i, j \in DOMAIN ret.pending :
             i < j => /\ ret.pending[i].requested_at <= ret.pending[j].requested_at
                      /\ ret.pending[i].id < ret.pending[j].id

\* C16 witness: the list holds two requests made at different times.
C16_Witness ==
    /\ ret.op = "get_pending_milestone_requests"
    /\ Len(ret.pending) = 2
    /\ ret.pending[1].requested_at < ret.pending[2].requested_at

\* the rows of wager_cache with a username
CacheRowsOf(cache, u) == {c \in cache : c.username = u}

\* C17 (SpecCache): the cache lookup of /wager returns the stored value of the
\* username exactly if the clock is strictly before the entry's expiry, and otherwise
\* nothing; the lookup itself removes no entry.
C17_FreshOrAbsent ==
    [][ (IsCall /\ ret'.op = "wager_handler")
          => LET rows == CacheRowsOf(wager_cache, ret'.username)
             IN  /\ ret'.cached.found <=> \E c \in rows : now < c.expires_at
                 /\ ret'.cached.found
                       => \E c \in rows :
                             /\ ret'.cached.daily_wager = c.daily_wager
                             /\ ret'.cached.weekly_wager = c.weekly_wager
                             /\ ret'.cached.last_7_days_wager = c.last_7_days_wager
                             /\ ret'.cached.monthly_wager = c.monthly_wager
                             /\ ret'.cached.total_wager = c.total_wager
                 /\ ~ret'.fetched => wager_cache' = wager_cache ]_vars

\* C17 witness: a lookup at the very second of the expiry returned nothing, and the
\* expired entry is still stored.
C17_Witness ==
    /\ ret.op = "wager_handler" /\ ~ret.cached.found /\ ret.stale
    /\ \E c \in CacheRowsOf(wager_cache, ret.username) : c.expires_at = now

\* C18 (SpecCache): after /wager has cached fetched statistics, wager_cache holds
\* exactly one entry of the username, every field of it is the field of the fetched
\* statistics, its expiry is the time of the call plus the lifetime, and the entries of
\* the other usernames are as they were.
C18_ReplaceWhole ==
    [][ (IsCall /\ ret'.op = "wager_handler" /\ ret'.fetched)
          => LET rows == CacheRowsOf(wager_cache', ret'.username)
             IN  /\ Cardinality(rows) = 1
                 /\ \A c \in rows :
                       /\ c.daily_wager = ret'.data.daily_wager
                       /\ c.weekly_wager = ret'.data.weekly_wager
                       /\ c.last_7_days_wager = ret'.data.last_7_days_wager
                       /\ c.monthly_wager = ret'.data.monthly_wager
                       /\ c.total_wager = ret'.data.total_wager
                       /\ c.expires_at = now + CacheDurationMinutes * SecondsPerMinute
                 /\ wager_cache' \ rows
                        = wager_cache \ CacheRowsOf(wager_cache, ret'.username) ]_vars

\* C18 witness: statistics with another monthly wager have replaced an expired entry
\* while an entry of another username is stored.
C18_Witness ==
    /\ ret.op = "wager_handler" /\ ret.fetched /\ ret.stale /\ now > HalfLife
    /\ \E c \in wager_cache : c.username # ret.username
                                /\ c.monthly_wager # ret.data.monthly_wager

\* the day number of the date a text of the ledger stands for
DayTexts == [n \in 0..(RollingDays + MaxDay) |-> strftime(DateOfDay(n))]
DayOfText(t) == CHOOSE n \in DOMAIN DayTexts : DayTexts[n] = t

\* C19 (SpecLedger): calculate_rolling_7_day_wager returns the sum of daily_wager over
\* the rows of the username whose day d has today - 7 < d <= today, and so 0 when
\* there is none.
C19_RollingWindow ==
    (ret.op \in {"calculate_rolling_7_day_wager", "get_player_wager_stats"})
    => ret.rolling
         = SumDaily({r \in daily_wager_history :
                        /\ r.username = ret.username
                        /\ today - RollingDays < DayOfText(r.date)
                        /\ DayOfText(r.date) <= today})

\* C19 witness: of two rows of the user, seven and six days old, the sum returned is
\* the amount of the second.
C19_Witness ==
    /\ ret.op = "calculate_rolling_7_day_wager"
    /\ \E r, q \in daily_wager_history :
          /\ r.username = ret.username /\ q.username = ret.username
          /\ DayOfText(r.date) = today - RollingDays
          /\ DayOfText(q.date) = today - RollingDays + 1
          /\ ret.rolling = q.daily_wager

\* C20 (SpecLedger): daily_wager_history never holds two rows of one (username, date);
\* recording an amount for a user and the running day leaves one row of that user and
\* day, holding the new amount, leaves every other row as it was, and moves the
\* user's rolling sum by the new amount minus the amount the day held before.
C20_ReplaceNotAdd ==
    /\ [](\A r, q \in daily_wager_history :
              (r.username = q.username /\ r.date = q.date) => r = q)
    /\ [][ (IsCall /\ ret'.op = "get_player_wager_stats")
              => LET date == strftime(DateOfDay(today))
                     mine(rows) == {r \in rows : r.username = ret'.username
                                                   /\ r.date = date}
                 IN  /\ Cardinality(mine(daily_wager_history')) = 1
                     /\ \A r \in mine(daily_wager_history') :
                            r.daily_wager = ret'.wager
                     /\ daily_wager_history' \ mine(daily_wager_history')
                            = daily_wager_history \ mine(daily_wager_history)
                     /\ ret'.rolling - ret'.rolling_before
                            = ret'.wager - ret'.replaced ]_vars

\* C20 witness: a second amount recorded for the day has replaced a different one
\* while the window holds a row of another day.
C20_Witness ==
    /\ ret.op = "get_player_wager_stats"
    /\ ret.replaced # 0 /\ ret.replaced # ret.wager
    /\ ret.rolling_before > ret.replaced
    /\ ret.rolling = ret.rolling_before + ret.wager - ret.replaced

\* the sum of daily_wager over the rows of a user in the n days up to a day
WindowSum(rows, u, day, n) ==
    SumDaily({r \in rows : /\ r.username = u
                            /\ day - n < DayOfText(r.date)
                            /\ DayOfText(r.date) <= day})

\* C21 (SpecPrune): cleanup_old_daily_wager_data(days_to_keep) only deletes rows,
\* and none of a day d with today - days_to_keep < d <= today; so for every user the
\* sum over any window of at most days_to_keep days up to today is what it was, and
\* so is calculate_rolling_7_day_wager when days_to_keep is 7 or more.
C21_CleanupKeepsWindow ==
    [][ (IsCall /\ ret'.op = "cleanup_old_daily_wager_data")
          => LET k == ret'.days_to_keep
             IN  /\ daily_wager_history' \subseteq daily_wager_history
                 /\ \A r \in daily_wager_history \ daily_wager_history' :
                        DayOfText(r.date) <= today - k
                 /\ \A u \in Usernames, n \in 1..Min({k, RollingDays + MaxDay + 1}) :
                        WindowSum(daily_wager_history', u, today, n)
                            = WindowSum(daily_wager_history, u, today, n)
                 /\ k >= RollingDays
                       => \A u \in Usernames :
                             calculate_rolling_7_day_wager(daily_wager_history', u, today)
                               = calculate_rolling_7_day_wager(daily_wager_history, u,
                                                               today) ]_vars

\* C21 witness: a cleanup has deleted a row and kept the row of the oldest day of the
\* window of days_to_keep days.
C21_Witness ==
    /\ ret.op = "cleanup_old_daily_wager_data" /\ ret.ok /\ ret.deleted > 0
    /\ \E r \in daily_wager_history :
          DayOfText(r.date) = today - ret.days_to_keep + 1

\* C23 (SpecCache): after unregister_user has succeeded for a user, daily_wager_history
\* holds no row of that user.
C23_LedgerPurged ==
    (ret.op = "unregister_user" /\ ret.ok)
    => \A r \in daily_wager_history : r.username # ret.username

\* the tables that hold a row of user u or of chat t
TablesOf(u, t) ==
    {"users" : r \in {x \in users : x.goated_username = u \/ x.telegram_id = t}}
    \cup {"achievements" : a \in {x \in DOMAIN milestone_achievements : x.username = u}}
    \cup {"requests" : i \in {j \in DOMAIN milestone_requests :
                                  \/ milestone_requests[j].username = u
                                  \/ milestone_requests[j].telegram_id = t}}
    \cup {"wager_cache" : c \in CacheRowsOf(wager_cache, u)}
    \cup {"leaderboard_cache" : c \in CacheRowsOf(leaderboard_cache, u)}

\* C22 (SpecAccount): after unregister_user has succeeded, no user row, achievement,
\* request, wager-cache entry or leaderboard-cache entry of the user is stored, and a
\* create_user call that follows it with the same affiliate username succeeds.
C22_UnregisterClears ==
    /\ []((ret.op = "unregister_user" /\ ret.ok)
            => TablesOf(ret.username, ret.telegram_id) = {})
    /\ [][ (/\ IsCall /\ ret.op = "unregister_user" /\ ret.ok
            /\ ret'.op = "create_user" /\ ret'.username = ret.username)
           => ret'.ok ]_vars

\* a registration succeeded right after the unregistration of an account that had
\* rows in all four dependent tables
C22_Witness ==
    /\ ret.op = "create_user" /\ ret.ok /\ ret.prev = "unregistered"
    /\ ret.purged = {"achievements", "requests", "wager_cache", "leaderboard_cache"}

\* C24 (SpecCase): no two rows of users claim the same affiliate account, the account
\* being the player find_player_by_username resolves the stored username to.
C24_OneClaimPerAccount ==
    \A r1, r2 \in users :
        r1 # r2 => CanonicalName(r1.goated_username) # CanonicalName(r2.goated_username)

\* C29 (SpecCase): every row of wager_cache and of leaderboard_cache is stored under
\* the name the affiliate API returns for the player.
C29_CanonicalKey ==
    \A c \in wager_cache \cup leaderboard_cache :
        validate_username(c.username) /\ c.username = CanonicalName(c.username)

\* C30 (SpecDefinitions): the list check_milestone_achievements returns is in strictly
\* ascending order of milestone_amount.
C30_ResultAscending ==
    IsCheck(ret)
    => \A i, j \in DOMAIN ret.result :
           i < j => ret.result[i].milestone_amount < ret.result[j].milestone_amount

\* the operations of the Milestone Engine, the Ledger and the cache, and the handler
\* that calls the cache and the ledger
CoreOps ==
    {"check_milestone_achievements", "get_next_milestone", "create_milestone_request",
     "update_milestone_request_status", "calculate_rolling_7_day_wager",
     "get_player_wager_stats", "wager_handler"}

Larger(a, b) == IF a >= b THEN a ELSE b

\* C25 (SpecEvaluate): two check_milestone_achievements calls never interleave: while
\* a call is between its SELECTs and its INSERTs the table holds exactly the
\* achievements it read; and when the second of two overlapping calls for one user
\* returns, the first having begun with nothing achieved, the two lists together hold
\* exactly the thresholds crossed by the larger wager, none is in both lists, and each
\* is stored once.
C25_NoInterleaving ==
    /\ [](\A t \in TaskIds :
            (tasks[t].pc = "inside" /\ tasks[t].read)
            => tasks[t].snapshot = AchievedMilestones(milestone_achievements,
                                       tasks[t].username, current_month_year))
    /\ [][ \A t, o \in TaskIds :
             (/\ t # o
              /\ tasks[t].check = "called" /\ tasks'[t].check = "ok"
              /\ tasks[t].overlap
              /\ tasks'[o].check = "ok" /\ tasks'[o].overlap
              /\ tasks'[o].username = tasks'[t].username
              /\ tasks'[o].snapshot = {})
             => LET crossed == Crossed(milestone_definitions,
                                      Larger(tasks'[t].wager, tasks'[o].wager))
                    first == Amounts(tasks'[o].result)
                    second == Amounts(tasks'[t].result)
                IN  /\ first \cup second = crossed
                    /\ first \cap second = {}
                    /\ \A a \in crossed :
                          Copies(milestone_achievements', tasks'[t].username, a,
                                 current_month_year) = 1 ]_vars

\* two overlapping evaluations of one user have returned: the first began with
\* nothing achieved, the second had to wait for the lock, then read what the first
\* had written and added to it
C25_Witness ==
    \E t, o \in TaskIds :
        /\ t # o
        /\ tasks[t].check = "ok" /\ tasks[o].check = "ok"
        /\ tasks[t].overlap /\ tasks[o].overlap
        /\ tasks[o].snapshot = {} /\ tasks[o].result # <<>>
        /\ tasks[t].snapshot = Amounts(tasks[o].result) /\ tasks[t].result # <<>>

\* C26 (SpecFetch): no task holds db_manager._lock while it awaits the affiliate API.
C26_NoFetchInsideGate ==
    \A t \in TaskIds : tasks[t].pc = "fetching" => gate # t

\* a task awaits the affiliate API while the other task is inside a critical section
C26_Witness ==
    \E t, o \in TaskIds :
        /\ t # o /\ tasks[t].pc = "fetching"
        /\ gate = o /\ tasks[o].pc = "inside"

\* C27 (FairSpecGate): a task holds db_manager._lock only while it is inside an
\* operation, whichever way the last operation ended (return, early return,
\* exception); when no operation is running the lock is free; and every task that
\* is about to take the lock or waits for it eventually holds it.
C27_GateReleased ==
    /\ [](\A t \in TaskIds : gate = t => tasks[t].pc = "inside")
    /\ []((\A t \in TaskIds : tasks[t].pc # "inside") => gate = 0)
    /\ \A t \in TaskIds : (tasks[t].pc \in {"request", "waiting"}) ~> (gate = t)

\* a task that had to wait holds the lock after the other task left its operation
\* by an early return
C27_Witness ==
    \E t, o \in TaskIds :
        /\ t # o /\ tasks[t].waited /\ gate = t
        /\ tasks[o].exit = "early"

\* C31 (SpecFlags): every achievement row an operation adds is added by an evaluation,
\* records the wager passed to that evaluation, which is at least the row's threshold,
\* and, when the threshold is below 100000, is the threshold of an active definition;
\* so the table never holds a row for a threshold below 100000 whose definition has
\* the flag cleared.
C31_CreditsActiveReached ==
    /\ [](\A r \in DOMAIN milestone_achievements :
            r.milestone_amount < LadderBase
            => \E d \in milestone_definitions :
                  d.milestone_amount = r.milestone_amount /\ d.is_active)
    /\ [][ \A r \in DOMAIN milestone_achievements' :
             CopiesIn(r, milestone_achievements') > CopiesIn(r, milestone_achievements)
             => /\ IsCheck(ret') /\ r.username = ret'.username
                /\ r.monthly_wager_at_achievement = ret'.wager
                /\ r.milestone_amount <= ret'.wager
                /\ r.milestone_amount < LadderBase
                   => \E d \in milestone_definitions :
                         d.milestone_amount = r.milestone_amount /\ d.is_active ]_vars

\* an evaluation created achievements with a wager that reached a definition below
\* 100000 whose flag is cleared
C31_Witness ==
    /\ IsCheck(ret) /\ ret.ok /\ ret.result # <<>>
    /\ \E d \in milestone_definitions :
          /\ ~d.is_active /\ d.milestone_amount < LadderBase
          /\ d.milestone_amount <= ret.wager

\* C34 (SpecDefinitions): an evaluation that begins with the database not write-locked
\* succeeds, and after it every threshold crossed by its wager (active definitions and
\* ladder values) is stored exactly once for the user and month and was either held
\* before the call or is in the returned list.
C34_CreditedOnceAndReturned ==
    (IsCheck(ret) /\ ~ret.locked)
    => /\ ret.ok
       /\ \A a \in Crossed(milestone_definitions, ret.wager) :
             /\ Copies(milestone_achievements, ret.username, a, ret.month) = 1
             /\ a \in ret.before \/ a \in Amounts(ret.result)

\* the last /wager found no valid cache entry and its fetch returned no data
FetchFailed(r) == r.op = "wager_handler" /\ ~r.cached.found /\ ~r.fetched

\* C32 (SpecUnavailable): a /wager whose fetch fails, whatever the cause, reports that
\* no data is available, evaluates nothing, and leaves wager_cache,
\* daily_wager_history and milestone_achievements as they were.
C32_FailedFetchWritesNothing ==
    [][ (IsCall /\ FetchFailed(ret'))
        => /\ ~ret'.ok /\ ret'.result = <<>> /\ ret'.data = <<>>
           /\ wager_cache' = wager_cache
           /\ daily_wager_history' = daily_wager_history
           /\ milestone_achievements' = milestone_achievements ]_vars

\* a fetch failed for a user who has an expired cache entry, a ledger row and an
\* achievement
C32_Witness ==
    /\ FetchFailed(ret) /\ ret.stale
    /\ \E d \in daily_wager_history : d.username = ret.username
    /\ Held(milestone_achievements, ret.username, current_month_year) # {}

\* the step is a call of log_command_usage
IsLog == IsCall /\ ret'.op = "log_command_usage" /\ (ret' # ret \/ bot_stats' # bot_stats)

\* C33 (SpecLog): a call of log_command_usage returns True, also when the database is
\* write-locked, when it stores no row; it raises nothing; it leaves db_manager._lock,
\* the tasks waiting for it and every table other than bot_stats as they were; and it
\* can run while a task holds the lock or waits for it.
C33_LogBestEffort ==
    /\ [][ IsLog
           => /\ ret'.ok /\ ~ret'.raised
              /\ ret'.locked => bot_stats' = bot_stats
              /\ gate' = gate /\ waiters' = waiters /\ tasks' = tasks
              /\ UNCHANGED <<users, milestone_definitions, milestone_achievements,
                             milestone_requests, request_seq, wager_cache,
                             daily_wager_history, leaderboard_cache, write_locked>> ]_vars
    /\ [](Len(bot_stats) < MaxStats => ENABLED LogCommandUsage({101}, {"wager"}))

\* a call of log_command_usage returned while a task held db_manager._lock and the
\* database was write-locked: its record was dropped
C33_Witness ==
    /\ ret.op = "log_command_usage" /\ ret.ok
    /\ ret.holder # 0 /\ ret.locked
    /\ waiters # <<>>

\* C35 (SpecStale): every achievement of a month records a monthly wager that the
\* affiliate API reported in that month.
C35_FigureOfItsMonth ==
    \A r \in DOMAIN milestone_achievements :
        \E k \in DOMAIN MonthNames :
            /\ r.month_year = MonthNames[k]
            /\ r.monthly_wager_at_achievement = MonthlyFigures[k]

\* task t awaits the affiliate API for the wager statistics of its user
WagerFetchInFlight(t) ==
    tasks[t].pc = "fetching" /\ tasks[t].cmd \in {"wager", "milestones"}

\* C36 (SpecFetch): within one lifetime of a cache entry (the wall clock stands still)
\* at most one fetch of a user's wager statistics is under way: no two tasks await the
\* affiliate API for the same user, and none awaits it for a user whose cache entry is
\* valid.
C36_OneFetchPerWindow ==
    \A t \in TaskIds :
        WagerFetchInFlight(t)
        => /\ \A o \in TaskIds \ {t} :
                 WagerFetchInFlight(o) => tasks[o].username # tasks[t].username
           /\ ~get_cached_wager_data(wager_cache, tasks[t].username, now).found

\* C37 (SpecNotify): check_and_notify_milestones returns exactly the thresholds whose
\* rows the call stored, with or without a bot.
C37_ReturnsWhatItStored ==
    ret.op = "check_and_notify_milestones"
    => Amounts(ret.result)
         = Held(milestone_achievements, ret.username, ret.month) \ ret.before

\* C38 (SpecDiscord): a Discord wager command that fetched evaluates with the player's
\* this_month amount and leaves the wager-cache entry that the Telegram command leaves
\* for the same player data.
C38_PlatformsAgree ==
    [][ (IsCall /\ ret'.op = "wager_command" /\ ret'.fetched)
        => LET player == [found |-> TRUE, today |-> ret'.data.today,
                          this_week |-> ret'.data.this_week,
                          this_month |-> ret'.data.this_month,
                          all_time |-> ret'.data.all_time]
               telegram == get_player_wager_stats(daily_wager_history, ret'.username,
                               player, today, write_locked)
           IN  /\ ret'.wager = player.this_month
               /\ wager_cache' = cache_wager_data(wager_cache, ret'.username,
                                      telegram.data, CacheDurationMinutes, now,
                                      write_locked).rows ]_vars

(***************************************************************************)
(* The rate limiter of one GoatedAPI client, for one endpoint.             *)
(***************************************************************************)
\* _rate_limit_check(endpoint) called when the clock reads t: the recorded times of
\* the last minute are kept; when MAX_REQUESTS_PER_MINUTE of them remain the call
\* sleeps until the oldest is SleepBase seconds old; then it records t, the time read
\* before the sleep. Times are whole seconds, so timedelta.seconds is the difference.
rate_limit_check(recorded, t) ==
    LET kept  == SelectSeq(recorded, LAMBDA req_time : req_time > t - RateWindow)
        sleep == IF Len(kept) >= MAX_REQUESTS_PER_MINUTE
                 THEN SleepBase - (t - kept[1]) ELSE 0
    IN  [ request_count |-> Append(kept, t), sleep_time |-> sleep ]

\* seconds between the end of one request and the call of the next
Pauses == {0, 1, 2, RateWindow \div 2, RateWindow + 1}

\* _make_request(endpoint, params), called `pause` seconds after the client's last
\* request went out: the limiter runs first, and the request is sent when it returns.
MakeRequest(P) ==
    \E pause \in P :
        LET out == rate_limit_check(request_count, now + pause)
        IN  /\ Len(sent) < MaxSends
            /\ request_count' = out.request_count
            /\ now' = now + pause + out.sleep_time
            /\ sent' = Append(sent, now')
            /\ UNCHANGED <<users, milestone_definitions, milestone_achievements,
                           milestone_requests, request_seq, clock, write_locked,
                           wager_cache, daily_wager_history, buttons, today, ret,
                           evaluated, leaderboard_cache, gate, waiters, tasks,
                           bot_stats>>

NextLimiter == MakeRequest(Pauses)

SpecLimiter == Init /\ [][NextLimiter]_vars

\* the requests sent in the RateWindow seconds that begin with the i-th
SentInWindow(i) == {j \in 1..Len(sent) : sent[i] <= sent[j] /\ sent[j] < sent[i] + RateWindow}

\* C39: one client never sends more than MAX_REQUESTS_PER_MINUTE requests to the same
\* endpoint within any 60-second window, whatever the times of the calls are, the
\* calls made right after the limiter has slept included.
C39_AtMostLimitPerWindow ==
    \A i \in 1..Len(sent) : Cardinality(SentInWindow(i)) <= MAX_REQUESTS_PER_MINUTE

====
